---- MODULE Spec2Model ----
(***************************************************************************)
(* Model of the xian-vl translation pipeline: the TranslationWorker loop   *)
(* (src/xian/translation_workers.py), the string cache of the              *)
(* TransformersTranslator (src/xian/translation_service.py), the overlay's *)
(* annotation list (src/xian/overlay_ui.py) and the UI-thread handlers of  *)
(* MainWindow (src/xian/main_window.py).                                   *)
(*                                                                         *)
(* Conventions.                                                            *)
(*  - Coordinates of OCR regions and TranslationResults are Python floats; *)
(*    they are kept here in half pixels (the integer v stands for v/2), so *)
(*    that int() and round() are real conversions.  QRect values are in    *)
(*    whole pixels, stored as Qt stores them: the corners x1, y1, x2, y2.  *)
(*  - A text is a sequence of one-character strings.                       *)
(*  - An OrderedDict is a sequence of entries, oldest first.               *)
(***************************************************************************)
EXTENDS Integers, Sequences, FiniteSets, TLC

----------------------------------------------------------------------------
(* Generic helpers *)

Range(s) == {s[i] : i \in 1..Len(s)}

Min2(a, b) == IF a <= b THEN a ELSE b

Max2(a, b) == IF a >= b THEN a ELSE b

Abs(a) == IF a < 0 THEN -a ELSE a

\* lexicographic order on tuples of integers / texts, as Python compares tuples
CharCode(c) == CASE c = " " -> 32 [] c = "\n" -> 10 [] c = "A" -> 65 [] c = "B" -> 66
                 [] c = "a" -> 97 [] c = "b" -> 98 [] OTHER -> 63

RECURSIVE TextLess(_, _)
TextLess(s, t) ==
  IF t = <<>> THEN FALSE
  ELSE IF s = <<>> THEN TRUE
  ELSE IF CharCode(Head(s)) # CharCode(Head(t)) THEN CharCode(Head(s)) < CharCode(Head(t))
  ELSE TextLess(Tail(s), Tail(t))

----------------------------------------------------------------------------
(* Python numbers in half pixels *)

\* int(v): truncation toward zero
PyInt(h) == IF h >= 0 THEN h \div 2 ELSE -((-h) \div 2)

\* int(round(v)): Python 3 rounds halves to the even neighbour
PyRound(h) ==
  IF h % 2 = 0 THEN h \div 2
  ELSE LET lo == (h - 1) \div 2 IN IF lo % 2 = 0 THEN lo ELSE lo + 1

\* float(n) of a whole number of pixels
PyFloat(n) == 2 * n

----------------------------------------------------------------------------
(* Texts: str.strip() and str.lower() *)

IsSpace(c) == c \in {" ", "\n"}

RECURSIVE LStrip(_)
LStrip(t) == IF t # <<>> /\ IsSpace(Head(t)) THEN LStrip(Tail(t)) ELSE t

RECURSIVE RStrip(_)
RStrip(t) == IF t # <<>> /\ IsSpace(t[Len(t)]) THEN RStrip(SubSeq(t, 1, Len(t) - 1)) ELSE t

Strip(t) == RStrip(LStrip(t))

LowerChar(c) == CASE c = "A" -> "a" [] c = "B" -> "b" [] c = "H" -> "h" [] OTHER -> c

Lower(t) == [i \in 1..Len(t) |-> LowerChar(t[i])]

\* Python's  s in t  for strings
IsSubstring(s, t) ==
  \E i \in 0..(Len(t) - Len(s)) : SubSeq(t, i + 1, i + Len(s)) = s

----------------------------------------------------------------------------
(* QRect, stored as Qt stores it *)

QRect(x, y, w, h) == [x1 |-> x, y1 |-> y, x2 |-> x + w - 1, y2 |-> y + h - 1]

RectX(r) == r.x1

RectY(r) == r.y1

RectWidth(r) == r.x2 - r.x1 + 1

RectHeight(r) == r.y2 - r.y1 + 1

RectXYWH(r) == <<RectX(r), RectY(r), RectWidth(r), RectHeight(r)>>

\* QRect.translated(dx, dy)
Translated(r, dx, dy) == [x1 |-> r.x1 + dx, y1 |-> r.y1 + dy, x2 |-> r.x2 + dx, y2 |-> r.y2 + dy]

\* QRect.adjust(dx1, dy1, dx2, dy2) / QRect.adjusted
Adjusted(r, dx1, dy1, dx2, dy2) ==
  [x1 |-> r.x1 + dx1, y1 |-> r.y1 + dy1, x2 |-> r.x2 + dx2, y2 |-> r.y2 + dy2]

\* QRect.isEmpty / isNull for the normalised rectangles used here
RectIsEmpty(r) == r.x1 > r.x2 \/ r.y1 > r.y2

\* QRect.contains(other rectangle)
RectContains(r, s) ==
  ~RectIsEmpty(r) /\ ~RectIsEmpty(s)
  /\ r.x1 <= s.x1 /\ s.x2 <= r.x2 /\ r.y1 <= s.y1 /\ s.y2 <= r.y2

\* QRect.isNull(): width and height both 0
RectIsNull(r) == r.x2 = r.x1 - 1 /\ r.y2 = r.y1 - 1

\* the normalisation Qt applies inside intersects / united / intersected
NormL(r) == IF r.x2 - r.x1 + 1 < 0 THEN r.x2 ELSE r.x1

NormR(r) == IF r.x2 - r.x1 + 1 < 0 THEN r.x1 ELSE r.x2

NormT(r) == IF r.y2 - r.y1 + 1 < 0 THEN r.y2 ELSE r.y1

NormB(r) == IF r.y2 - r.y1 + 1 < 0 THEN r.y1 ELSE r.y2

\* QRect.intersects
Intersects(r, s) ==
  /\ ~RectIsNull(r) /\ ~RectIsNull(s)
  /\ ~(NormL(r) > NormR(s) \/ NormL(s) > NormR(r))
  /\ ~(NormT(r) > NormB(s) \/ NormT(s) > NormB(r))

\* QRect() : the null rectangle
NullRect == [x1 |-> 0, y1 |-> 0, x2 |-> -1, y2 |-> -1]

\* QRect.intersected
Intersected(r, s) ==
  IF ~Intersects(r, s) THEN NullRect
  ELSE [x1 |-> Max2(NormL(r), NormL(s)), x2 |-> Min2(NormR(r), NormR(s)),
        y1 |-> Max2(NormT(r), NormT(s)), y2 |-> Min2(NormB(r), NormB(s))]

\* QRect.united: the bounding rectangle of the two
United(r, s) ==
  IF RectIsNull(r) THEN s
  ELSE IF RectIsNull(s) THEN r
  ELSE [x1 |-> Min2(NormL(r), NormL(s)), x2 |-> Max2(NormR(r), NormR(s)),
        y1 |-> Min2(NormT(r), NormT(s)), y2 |-> Max2(NormB(r), NormB(s))]

\* C++ integer division, which truncates toward zero
CDiv(a, b) == IF a >= 0 THEN a \div b ELSE -((-a) \div b)

\* QRect.center()
Center(r) == [x |-> CDiv(r.x1 + r.x2, 2), y |-> CDiv(r.y1 + r.y2, 2)]

\* QRect.contains(QPoint)
ContainsPoint(r, p) ==
  /\ ~RectIsNull(r)
  /\ NormL(r) <= p.x /\ p.x <= NormR(r)
  /\ NormT(r) <= p.y /\ p.y <= NormB(r)

\* QRect(int(r.x), int(r.y), int(r.width), int(r.height)) of a result or region
SourceRect(r) == QRect(PyInt(r.x), PyInt(r.y), PyInt(r.width), PyInt(r.height))

----------------------------------------------------------------------------
(* Fingerprints of OCR regions and of translation results *)

\* Python's order on the tuples (x, y, width, height, text)
FpLess(a, b) ==
  \/ a[1] < b[1]
  \/ a[1] = b[1] /\ a[2] < b[2]
  \/ a[1] = b[1] /\ a[2] = b[2] /\ a[3] < b[3]
  \/ a[1] = b[1] /\ a[2] = b[2] /\ a[3] = b[3] /\ a[4] < b[4]
  \/ a[1] = b[1] /\ a[2] = b[2] /\ a[3] = b[3] /\ a[4] = b[4] /\ TextLess(a[5], b[5])

RECURSIVE FpInsert(_, _)
FpInsert(e, s) ==
  IF s = <<>> THEN <<e>>
  ELSE IF FpLess(e, Head(s)) THEN <<e>> \o s
  ELSE <<Head(s)>> \o FpInsert(e, Tail(s))

RECURSIVE FpSorted(_)
\* sorted(...) of a sequence of fingerprint tuples
FpSorted(s) == IF s = <<>> THEN <<>> ELSE FpInsert(Head(s), FpSorted(Tail(s)))

\* TranslationWorker._fingerprint_ocr_regions
_fingerprint_ocr_regions(ocr_regions) ==
  FpSorted([i \in 1..Len(ocr_regions) |->
      <<PyRound(ocr_regions[i].x), PyRound(ocr_regions[i].y),
        PyRound(ocr_regions[i].width), PyRound(ocr_regions[i].height),
        Strip(ocr_regions[i].text)>>])

\* TranslationWorker._fingerprint_translations
_fingerprint_translations(translations) ==
  FpSorted([i \in 1..Len(translations) |->
      <<PyRound(translations[i].x), PyRound(translations[i].y),
        PyRound(translations[i].width), PyRound(translations[i].height),
        Strip(translations[i].translated_text)>>])

\* the values of TranslationWorker._last_translation_signature: None, the marker
\* _empty_signature ("__empty__",), or a fingerprint
NoSignature == [kind |-> "none"]

EmptySignature == [kind |-> "empty"]

Signature(fp) == [kind |-> "fp", fp |-> fp]

----------------------------------------------------------------------------
(* The three OrderedDict caches *)

\* index of the entry with key k, 0 when absent
CacheIndex(cache, k) ==
  IF \E i \in 1..Len(cache) : cache[i].key = k
  THEN CHOOSE i \in 1..Len(cache) : cache[i].key = k
  ELSE 0

CacheHas(cache, k) == CacheIndex(cache, k) # 0

CacheKeys(cache) == [i \in 1..Len(cache) |-> cache[i].key]

\* OrderedDict.get(k) for a present key
CacheEntry(cache, k) == cache[CacheIndex(cache, k)]

CacheRemove(cache, k) == SelectSeq(cache, LAMBDA e : e.key # k)

\* d[k] = entry; d.move_to_end(k)
CachePut(cache, entry) == Append(CacheRemove(cache, entry.key), entry)

RECURSIVE BadEvict(_, _)
\* a plausible slip: popitem() without last=False pops the newest entry
BadEvict(cache, max) ==
  IF Len(cache) > max THEN BadEvict(SubSeq(cache, 1, Len(cache) - 1), max) ELSE cache

RECURSIVE Evict(_, _)
\* while len(d) > max: d.popitem(last=False)
Evict(cache, max) == IF Len(cache) > max THEN Evict(Tail(cache), max) ELSE cache

image_cache_max == 8

translation_cache_max == 16

cache_max_items == 500

\* the dict stored for an image hash; an absent field is has* = FALSE
NoEntry == [hasOcr |-> FALSE, ocr |-> <<>>, hasTr |-> FALSE, translations |-> <<>>]

\* a plausible slip: the translations argument is dropped
BadStoreImageCache(cache, image_hash, hasOcr, ocr_regions, hasTr, translations) ==
  LET old == IF \E i \in 1..Len(cache) : cache[i].key = image_hash
             THEN cache[CHOOSE i \in 1..Len(cache) : cache[i].key = image_hash]
             ELSE [key |-> image_hash, hasOcr |-> FALSE, ocr |-> <<>>, hasTr |-> FALSE,
                   translations |-> <<>>]
      e1 == IF hasOcr THEN [old EXCEPT !.hasOcr = TRUE, !.ocr = ocr_regions] ELSE old
  IN Append(SelectSeq(cache, LAMBDA e : e.key # image_hash), e1)

\* TranslationWorker._store_image_cache(image_hash, ocr_regions, translations);
\* a None argument is passed as has* = FALSE
_store_image_cache(cache, image_hash, hasOcr, ocr_regions, hasTr, translations) ==
  LET old == IF CacheHas(cache, image_hash)
             THEN CacheEntry(cache, image_hash)
             ELSE [key |-> image_hash] @@ NoEntry
      e1 == IF hasOcr THEN [old EXCEPT !.hasOcr = TRUE, !.ocr = ocr_regions] ELSE old
      e2 == IF hasTr THEN [e1 EXCEPT !.hasTr = TRUE, !.translations = translations] ELSE e1
  IN Evict(CachePut(cache, e2), image_cache_max)

\* TranslationWorker._store_translation_signature(signature, translations)
_store_translation_signature(cache, signature, translations) ==
  Evict(CachePut(cache, [key |-> signature, translations |-> translations]),
        translation_cache_max)

\* TransformersTranslator._cache_get: the cache after the lookup (a hit moves the key to the end)
_cache_get(cache, key) ==
  IF CacheHas(cache, key) THEN CachePut(cache, CacheEntry(cache, key)) ELSE cache

\* TransformersTranslator._cache_set
_cache_set(cache, key, value) ==
  Evict(CachePut(cache, [key |-> key, value |-> value]), cache_max_items)

----------------------------------------------------------------------------
(* Images, redaction, hashing, OCR *)

\* An image is what the screen shows (its coarse 16x16 appearance "grid" and the
\* text items on it) plus the black rectangles painted on it so far.
\* An item is one OCR detection: corners x0, y0, x1, y1 of its box in half
\* pixels, its text and its confidence in tenths.

BadRedactImage(image, geometries, ox, oy, margin) ==
  IF geometries = <<>> THEN image
  ELSE [image EXCEPT !.painted = @ \cup
          {Adjusted(Translated(geometries[i], -ox, -oy), -margin, -margin, -margin, -margin)
             : i \in 1..Len(geometries)}]

\* TranslationWorker._redact_image(image, geometries, offset) with self.redaction_margin
_redact_image(image, geometries, ox, oy, margin) ==
  IF geometries = <<>> THEN image
  ELSE [image EXCEPT !.painted = @ \cup
          {Adjusted(Translated(geometries[i], -ox, -oy), -margin, -margin, margin, margin)
             : i \in 1..Len(geometries)}]

\* ScreenCapture.calculate_hash: a hash of the 16x16 downsampled image, which
\* shows the coarse appearance and the painted rectangles but not the fine text
calculate_hash(image) == [grid |-> image.grid, painted |-> image.painted]

\* an item is hidden from OCR when a painted rectangle covers its whole box
ItemHidden(item, painted) ==
  \E p \in painted :
     /\ 2 * p.x1 <= item.x0 /\ item.x1 <= 2 * (p.x2 + 1)
     /\ 2 * p.y1 <= item.y0 /\ item.y1 <= 2 * (p.y2 + 1)

\* ocr_reader.readtext(image_data): the detections (bbox, text, prob) of the visible items
readtext(image) == SelectSeq(image.items, LAMBDA it : ~ItemHidden(it, image.painted))

\* the confidence filter and the bbox conversion of _translate_with_ocr
OcrRegionOf(it) ==
  [text |-> it.text, x |-> Min2(it.x0, it.x1), y |-> Min2(it.y0, it.y1),
   width |-> Max2(it.x0, it.x1) - Min2(it.x0, it.x1),
   height |-> Max2(it.y0, it.y1) - Min2(it.y0, it.y1)]

\* a plausible slip: no confidence filter
BadFormatOcrResults(results) ==
  [i \in 1..Len(results) |-> OcrRegionOf(results[i])]

FormatOcrResults(results) ==
  LET kept == SelectSeq(results, LAMBDA it : ~(it.prob < 2))
  IN [i \in 1..Len(kept) |-> OcrRegionOf(kept[i])]

----------------------------------------------------------------------------
(* TransformersTranslator.translate_text_regions *)

\* the default languages of the worker and the default model of the translator
source_lang == "auto"

target_lang == "English"

model_name == "facebook/nllb-200-distilled-600M"

\* cache_key = (effective_model_name, text, source_lang, target_lang)
CacheKey(text) == <<model_name, text, source_lang, target_lang>>

\* what the model generates for a source text (a stand-in for the external model)
UpperChar(c) == CASE c = "a" -> "A" [] c = "b" -> "B" [] OTHER -> c

ModelOutput(text) == [i \in 1..Len(text) |-> UpperChar(text[i])]

TranslationResult(text, region) ==
  [translated_text |-> text, x |-> region.x, y |-> region.y,
   width |-> region.width, height |-> region.height]

NoSlot == [some |-> FALSE]

Slot(r) == [some |-> TRUE, r |-> r]

RECURSIVE CacheScan(_, _, _)
\* the first loop: one cache lookup per non-blank region; st = [cache, results, todo]
CacheScan(regions, i, st) ==
  IF i > Len(regions) THEN st
  ELSE LET text == Strip(regions[i].text)
           key == CacheKey(text)
       IN IF text = <<>> THEN CacheScan(regions, i + 1, st)
          ELSE IF CacheHas(st.cache, key)
          THEN CacheScan(regions, i + 1,
                 [st EXCEPT !.cache = _cache_get(st.cache, key),
                            !.results = Append(@, Slot(TranslationResult(
                                           CacheEntry(st.cache, key).value, regions[i])))])
          ELSE CacheScan(regions, i + 1,
                 [st EXCEPT !.results = Append(@, NoSlot),
                            !.todo = Append(@, [idx |-> i - 1, text |-> text])])

RECURSIVE CacheFill(_, _, _)
\* the loop after batch_decode: store each translation, then results[idx] = ...;
\* an index past the end of results raises IndexError, which ends the loop
CacheFill(regions, todo, st) ==
  IF todo = <<>> THEN st
  ELSE LET t == Head(todo)
           out == ModelOutput(t.text)
           c2 == _cache_set(st.cache, CacheKey(t.text), out)
       IN IF t.idx + 1 > Len(st.results)
          THEN [st EXCEPT !.cache = c2]
          ELSE CacheFill(regions, Tail(todo),
                 [st EXCEPT !.cache = c2,
                            !.results[t.idx + 1] =
                                Slot(TranslationResult(out, regions[t.idx + 1]))])

SlotsToResults(slots) ==
  LET kept == SelectSeq(slots, LAMBDA sl : sl.some)
  IN [i \in 1..Len(kept) |-> kept[i].r]

TranslatorOutcomes == {"ok", "raise", "noload", "nobos"}

\* translate_text_regions(regions, source_lang, target_lang) on the string cache
\* `cache`; outcome says what the external model does: "noload" the model cannot
\* be loaded, "nobos" the target language token is unknown, "raise" the batch
\* call raises, "ok" it translates.  Result: the returned list, the cache
\* afterwards, and the texts handed to the model.
translate_text_regions(cache, regions, outcome) ==
  IF outcome = "noload" THEN [results |-> <<>>, cache |-> cache, batch |-> <<>>]
  ELSE LET st == CacheScan(regions, 1, [cache |-> cache, results |-> <<>>, todo |-> <<>>])
           batch == [i \in 1..Len(st.todo) |-> st.todo[i].text]
       IN IF st.todo = <<>>
          THEN [results |-> SlotsToResults(st.results), cache |-> st.cache, batch |-> <<>>]
          ELSE IF outcome = "nobos"
          THEN [results |-> <<>>, cache |-> st.cache, batch |-> <<>>]
          ELSE IF outcome = "raise"
          THEN [results |-> SlotsToResults(st.results), cache |-> st.cache, batch |-> batch]
          ELSE LET st2 == CacheFill(regions, st.todo, st)
               IN [results |-> SlotsToResults(st2.results), cache |-> st2.cache,
                   batch |-> batch]

----------------------------------------------------------------------------
(* TranslationOverlay.update_translations: merging and paragraph clustering *)

RECURSIVE InsertByKey(_, _)
\* insert e after every element whose key (k1, k2) is not greater: a stable sort step
InsertByKey(sorted, e) ==
  IF sorted = <<>> THEN <<e>>
  ELSE LET h == Head(sorted)
       IN IF e.k1 < h.k1 \/ (e.k1 = h.k1 /\ e.k2 < h.k2)
          THEN <<e>> \o sorted
          ELSE <<h>> \o InsertByKey(Tail(sorted), e)

RECURSIVE SortKeyed(_, _)
SortKeyed(s, acc) == IF s = <<>> THEN acc ELSE SortKeyed(Tail(s), InsertByKey(acc, Head(s)))

\* sorted(translations, key=lambda r: (r.y, r.x))
SortByYX(rs) ==
  LET keyed == [i \in 1..Len(rs) |-> [k1 |-> rs[i].y, k2 |-> rs[i].x, v |-> rs[i]]]
      srt == SortKeyed(keyed, <<>>)
  IN [i \in 1..Len(srt) |-> srt[i].v]

\* sorted(items, key=lambda r: (int(r.y), int(r.x)))
SortByIntYX(rs) ==
  LET keyed == [i \in 1..Len(rs) |-> [k1 |-> PyInt(rs[i].y), k2 |-> PyInt(rs[i].x), v |-> rs[i]]]
      srt == SortKeyed(keyed, <<>>)
  IN [i \in 1..Len(srt) |-> srt[i].v]

\* the horizontal gap between a group and a result, in half pixels
XDiff(existing, res) == res.x - (existing.x + existing.width)

\* lines 826-829: the result repeats the group
IsDuplicate(existing, res) ==
  /\ Abs(existing.y - res.y) < 2 * 20
  /\ Strip(res.translated_text) = Strip(existing.translated_text)
  /\ Abs(XDiff(existing, res)) < 2 * 50

\* lines 826, 831: the result continues the group on the same line
IsAdjacent(existing, res) ==
  /\ Abs(existing.y - res.y) < 2 * 20
  /\ -(2 * 20) < XDiff(existing, res) /\ XDiff(existing, res) < 2 * 40

\* lines 832-838: the group after the result has joined it
JoinGroup(existing, res) ==
  LET new_right == Max2(existing.x + existing.width, res.x + res.width)
  IN [translated_text |->
        IF ~IsSubstring(Lower(Strip(res.translated_text)), Lower(existing.translated_text))
        THEN existing.translated_text \o <<" ">> \o res.translated_text
        ELSE existing.translated_text,
      x |-> existing.x,
      y |-> Min2(existing.y, res.y),
      width |-> new_right - existing.x,
      height |-> Max2(existing.height, res.height)]

RECURSIVE MergeOne(_, _, _)
\* the inner loop of lines 822-844 from group j on
MergeOne(merged, res, j) ==
  IF j > Len(merged) THEN Append(merged, res)
  ELSE IF IsDuplicate(merged[j], res) THEN merged
  ELSE IF IsAdjacent(merged[j], res) THEN [merged EXCEPT ![j] = JoinGroup(merged[j], res)]
  ELSE MergeOne(merged, res, j + 1)

RECURSIVE MergeAll(_, _)
MergeAll(sorted_results, merged) ==
  IF sorted_results = <<>> THEN merged
  ELSE MergeAll(Tail(sorted_results), MergeOne(merged, Head(sorted_results), 1))

\* lines 816-844: merged_results
MergeResults(translations) == MergeAll(SortByYX(translations), <<>>)

\* lines 866-870: does the result belong to the cluster with bounding rectangle rect
InCluster(rect, res) ==
  LET res_rect == SourceRect(res)
      vert_close == \/ Abs(res.y - (2 * RectY(rect) + RectHeight(rect))) < 2 * 28
                    \/ (2 * (rect.y1 - 30) <= res.y /\ res.y <= 2 * (rect.y2 + 30))
      overlap == \/ Intersects(rect, res_rect)
                 \/ (res_rect.x1 <= rect.x2 + 20 /\ res_rect.x2 >= rect.x1 - 20)
  IN vert_close /\ overlap

RECURSIVE ClusterOne(_, _, _)
ClusterOne(clusters, res, j) ==
  IF j > Len(clusters) THEN Append(clusters, [rect |-> SourceRect(res), items |-> <<res>>])
  ELSE IF InCluster(clusters[j].rect, res)
  THEN [clusters EXCEPT ![j] = [rect |-> United(clusters[j].rect, SourceRect(res)),
                                items |-> Append(clusters[j].items, res)]]
  ELSE ClusterOne(clusters, res, j + 1)

RECURSIVE ClusterAll(_, _)
ClusterAll(merged_results, clusters) ==
  IF merged_results = <<>> THEN clusters
  ELSE ClusterAll(Tail(merged_results), ClusterOne(clusters, Head(merged_results), 1))

RECURSIVE JoinLines(_)
\* "\n".join(texts)
JoinLines(texts) ==
  IF texts = <<>> THEN <<>>
  ELSE IF Len(texts) = 1 THEN texts[1]
  ELSE texts[1] \o <<"\n">> \o JoinLines(Tail(texts))

\* lines 882-902: the result that stands for one cluster (text <<>> : none)
ClusterResult(cl) ==
  LET items == SortByIntYX(cl.items)
      stripped == [i \in 1..Len(items) |-> Strip(items[i].translated_text)]
      texts == SelectSeq(stripped, LAMBDA t : t # <<>>)
  IN [translated_text |-> JoinLines(texts),
      x |-> PyFloat(RectX(cl.rect)), y |-> PyFloat(RectY(cl.rect)),
      width |-> PyFloat(RectWidth(cl.rect)), height |-> PyFloat(RectHeight(cl.rect))]

\* lines 856-906: clustered_results
ClusterResults(merged_results, combine_mode) ==
  IF ~combine_mode THEN merged_results
  ELSE LET clusters == ClusterAll(merged_results, <<>>)
           all == [i \in 1..Len(clusters) |-> ClusterResult(clusters[i])]
       IN SortByIntYX(SelectSeq(all, LAMBDA r : r.translated_text # <<>>))

----------------------------------------------------------------------------
(* TranslationBubble: an annotation widget *)

\* A bubble is [result, x, y, w, h, visible, expanded]: the TranslationResult it
\* shows, its widget position relative to the overlay window and its size in
\* pixels, whether the widget is shown, and whether it is expanded.

\* the geometry of the overlay window: the whole virtual desktop
\* (OverlayWindow.__init__, ScreenCapture.get_virtual_desktop_geometry)
Desktop == QRect(0, 0, 1920, 1080)

\* the geometry of the control panel inside the overlay window
\* (OverlayControlPanel.__init__: resize(520, 300), _move_to_default_position)
PanelGeometry == QRect(20, 20, 520, 300)

\* QFontMetrics.boundingRect of a word-wrapped text in a box content_width wide:
\* a stand-in for the font engine, 10 pixels a character and 20 a line
FontBoundingRect(text, content_width) ==
  [w |-> Min2(content_width, 10 * Len(text)),
   h |-> 20 * (1 + Cardinality({i \in 1..Len(text) : text[i] = "\n"}))]

\* TranslationBubble.update_geometry: the size and position for the bubble's result
update_geometry(b) ==
  LET r == b.result
      mw == Min2(Max2(2 * 150, r.width + 2 * 40), 2 * 350)
      content_width_i == Max2(1, PyRound(mw) - 40)
      text_rect == FontBoundingRect(r.translated_text, content_width_i)
      box_width == IF b.expanded THEN 400 ELSE Max2(text_rect.w + 40, 100)
      box_height == IF b.expanded THEN 250 ELSE Max2(text_rect.h + 40 + 10, 40)
      target_x == r.x + 2 * ((r.width - 2 * box_width) \div 4)
      target_y == r.y + 2 * ((r.height - 2 * box_height) \div 4)
      x == Max2(2 * (Desktop.x1 + 10), Min2(target_x, 2 * (Desktop.x2 - box_width - 10)))
      y == Max2(2 * (Desktop.y1 + 10), Min2(target_y, 2 * (Desktop.y2 - box_height - 10)))
  IN [b EXCEPT !.w = box_width, !.h = box_height,
               !.x = PyInt(x - 2 * Desktop.x1), !.y = PyInt(y - 2 * Desktop.y1)]

\* TranslationBubble.__init__
NewBubble(result, default_expanded) ==
  update_geometry([result |-> result, x |-> 0, y |-> 0, w |-> 0, h |-> 0,
                   visible |-> TRUE, expanded |-> default_expanded])

\* TranslationBubble.update_content
update_content(b, result) ==
  IF b.result.translated_text # result.translated_text
  THEN update_geometry([b EXCEPT !.result = result])
  ELSE IF Abs(PyInt(b.result.x) - PyInt(result.x)) + Abs(PyInt(b.result.y) - PyInt(result.y)) > 5
  THEN update_geometry([b EXCEPT !.result = result])
  ELSE b

\* QWidget.geometry() of a bubble, relative to the overlay window
BubbleGeometry(b) == QRect(b.x, b.y, b.w, b.h)

----------------------------------------------------------------------------
(* TranslationOverlay.update_translations: matching *)

\* scores are fractions n/d with d > 0
Frac(n, d) == [n |-> n, d |-> d]

FracGreater(a, b) == a.n * b.d > b.n * a.d

FracMax(a, b) == IF FracGreater(b, a) THEN b ELSE a

\* lines 925-930: the result lies just beneath the bubble's source rectangle
IsAppendBelow(ex_source_rect, new_source_rect) ==
  LET vert_gap == new_source_rect.y1 - ex_source_rect.y2
      horiz_overlap == Min2(ex_source_rect.x2, new_source_rect.x2)
                         - Max2(ex_source_rect.x1, new_source_rect.x1)
      min_width == Min2(RectWidth(ex_source_rect), RectWidth(new_source_rect))
  IN 0 <= vert_gap /\ vert_gap <= 36 /\ 10 * horiz_overlap >= 3 * min_width

\* the intersection over the sum of the two areas instead of over the union
BadSpatialScore(ex_source_rect, new_source_rect) ==
  IF Intersects(ex_source_rect, new_source_rect)
  THEN LET inter == Intersected(ex_source_rect, new_source_rect)
       IN Frac(RectWidth(inter) * RectHeight(inter),
               RectWidth(ex_source_rect) * RectHeight(ex_source_rect)
                 + RectWidth(new_source_rect) * RectHeight(new_source_rect))
  ELSE Frac(0, 1)

\* lines 935-939: the spatial score
SpatialScore(ex_source_rect, new_source_rect) ==
  IF Intersects(ex_source_rect, new_source_rect)
  THEN LET inter == Intersected(ex_source_rect, new_source_rect)
           union == United(ex_source_rect, new_source_rect)
       IN Frac(RectWidth(inter) * RectHeight(inter), RectWidth(union) * RectHeight(union))
  ELSE Frac(0, 1)

\* lines 941-944: the text score, 0.7 + (1 - dist/500) * 0.3 = (10000 - 3 d) / 10000
\* for a distance of d half pixels
TextScore(ex, result) ==
  LET ex_text_norm == Lower(Strip(ex.translated_text))
      result_text_norm == Lower(Strip(result.translated_text))
      dist == Abs(ex.x - result.x) + Abs(ex.y - result.y)
  IN IF /\ \/ ex_text_norm = result_text_norm
           \/ IsSubstring(ex_text_norm, result_text_norm)
           \/ IsSubstring(result_text_norm, ex_text_norm)
        /\ dist < 2 * 500
     THEN Frac(10000 - 3 * dist, 10000)
     ELSE Frac(0, 1)

\* lines 948-950: the centre-proximity score, (1 - c/100) * 0.6
CenterScore(ex_source_rect, new_source_rect) ==
  LET a == Center(ex_source_rect)
      b == Center(new_source_rect)
      c_dist == Abs(a.x - b.x) + Abs(a.y - b.y)
  IN IF c_dist < 100 THEN Frac(6 * (100 - c_dist), 1000) ELSE Frac(0, 1)

\* lines 920-950: the score of a result against one bubble
Score(ex, result) ==
  FracMax(FracMax(TextScore(ex, result), SpatialScore(SourceRect(ex), SourceRect(result))),
          CenterScore(SourceRect(ex), SourceRect(result)))

\* lines 917-954 for one bubble: acc = [best, highest, below], indexes into bubbles,
\* 0 for None
ScanStep(ex, result, j, acc) ==
  LET sc == Score(ex, result)
      a1 == IF IsAppendBelow(SourceRect(ex), SourceRect(result))
            THEN [acc EXCEPT !.below = j] ELSE acc
  IN IF FracGreater(sc, a1.highest) THEN [a1 EXCEPT !.highest = sc, !.best = j] ELSE a1

RECURSIVE ScanBubbles(_, _, _, _)
RECURSIVE ScanNext(_, _, _, _)
\* lines 917-954: the loop over self.bubbles from bubble j on
ScanBubbles(bubbles, result, j, acc) ==
  IF j > Len(bubbles) THEN acc
  ELSE ScanNext(bubbles, result, j, ScanStep(bubbles[j].result, result, j, acc))

\* the rest of the loop after bubble j left acc
ScanNext(bubbles, result, j, acc) ==
  IF acc.best < 0 THEN acc ELSE ScanBubbles(bubbles, result, j + 1, acc)

\* lines 957-972: the result of the bubble after a line was appended beneath it
AppendBelow(base, result) ==
  LET union_rect == United(SourceRect(base), SourceRect(result))
      n == Len(base.translated_text)
  IN [translated_text |->
        IF n > 0 /\ base.translated_text[n] = "\n"
        THEN base.translated_text \o Strip(result.translated_text)
        ELSE base.translated_text \o <<"\n">> \o Strip(result.translated_text),
      x |-> PyFloat(RectX(union_rect)), y |-> PyFloat(RectY(union_rect)),
      width |-> PyFloat(RectWidth(union_rect)), height |-> PyFloat(RectHeight(union_rect))]

\* a plausible slip: the best match is tried before the append-below target
BadApplyMatch(st, result, m, default_expanded) ==
  IF m.best # 0 /\ FracGreater(m.highest, Frac(4, 10))
  THEN [bubbles |-> [st.bubbles EXCEPT ![m.best] = update_content(@, result)],
        matched |-> st.matched \cup {m.best}]
  ELSE IF m.below # 0 /\ Strip(result.translated_text) # <<>>
  THEN [bubbles |-> [st.bubbles EXCEPT ![m.below] =
                       update_content(@, AppendBelow(@.result, result))],
        matched |-> st.matched \cup {m.below}]
  ELSE [bubbles |-> Append(st.bubbles, NewBubble(result, default_expanded)),
        matched |-> st.matched \cup {Len(st.bubbles) + 1}]

\* lines 956-1007 for one result with the outcome m of the scan
ApplyMatch(st, result, m, default_expanded) ==
  IF m.below # 0 /\ Strip(result.translated_text) # <<>>
  THEN [bubbles |-> [st.bubbles EXCEPT ![m.below] =
                       update_content(@, AppendBelow(@.result, result))],
        matched |-> st.matched \cup {m.below}]
  ELSE IF m.best # 0 /\ FracGreater(m.highest, Frac(4, 10))
  THEN [bubbles |-> [st.bubbles EXCEPT ![m.best] = update_content(@, result)],
        matched |-> st.matched \cup {m.best}]
  ELSE [bubbles |-> Append(st.bubbles, NewBubble(result, default_expanded)),
        matched |-> st.matched \cup {Len(st.bubbles) + 1}]

\* lines 909-1007 for one result; st = [bubbles, matched], matched a set of indexes
ApplyResult(st, result, default_expanded) ==
  ApplyMatch(st, result,
             ScanBubbles(st.bubbles, result, 1,
                         [best |-> 0, highest |-> Frac(0, 1), below |-> 0]),
             default_expanded)

RECURSIVE ApplyResults(_, _, _)
ApplyResults(st, results, default_expanded) ==
  IF results = <<>> THEN st
  ELSE ApplyResults(ApplyResult(st, Head(results), default_expanded),
                    Tail(results), default_expanded)

----------------------------------------------------------------------------
(* TranslationOverlay.update_translations: cleanup, cap, layout *)

\* an optional QRect argument: None, or a rectangle
NoArea == [some |-> FALSE]

Area(rect) == [some |-> TRUE, rect |-> rect]

\* QWidget.close() of a bubble: no WA_DeleteOnClose is set, so the widget is
\* hidden, not destroyed, and it stays in TranslationOverlay.bubbles
CloseBubble(b) == [b EXCEPT !.visible = FALSE]

\* lines 1009-1023: close the unmatched bubbles whose source lies in the updated area
RemoveStale(bubbles, matched, updated_area) ==
  IF ~updated_area.some \/ RectIsNull(updated_area.rect) THEN bubbles
  ELSE LET margin_area == Adjusted(updated_area.rect, -5, -5, 5, 5)
       IN [i \in 1..Len(bubbles) |->
             IF /\ i \notin matched
                /\ \/ Intersects(margin_area, SourceRect(bubbles[i].result))
                   \/ ContainsPoint(margin_area, Center(SourceRect(bubbles[i].result)))
             THEN CloseBubble(bubbles[i]) ELSE bubbles[i]]

MAX_BUBBLES == 50

\* lines 1025-1039: close the oldest unmatched bubbles beyond the cap
CapBubbles(bubbles, matched) ==
  IF Len(bubbles) <= MAX_BUBBLES THEN bubbles
  ELSE LET num_to_remove == Len(bubbles) - MAX_BUBBLES
           \* the number of unmatched bubbles at indexes up to i
           Unmatched(i) == Cardinality({j \in 1..i : j \notin matched})
       IN [i \in 1..Len(bubbles) |->
             IF i \notin matched /\ Unmatched(i) <= num_to_remove
             THEN CloseBubble(bubbles[i]) ELSE bubbles[i]]

\* QRect.moveTop / QRect.moveLeft
MoveTop(r, y) == [r EXCEPT !.y2 = @ + (y - r.y1), !.y1 = y]

MoveLeft(r, x) == [r EXCEPT !.x2 = @ + (x - r.x1), !.x1 = x]

\* overlay_window.rect()
WorkArea == QRect(0, 0, RectWidth(Desktop), RectHeight(Desktop))

\* lines 1098-1103: the indexes of the obstacles the rectangle intersects
Hits(rect, placed) == {i \in 1..Len(placed) : Intersects(rect, placed[i])}

\* lines 1098-1103: move the rectangle just below the first obstacle it intersects
DropBelow(rect, placed, margin) ==
  LET hits == Hits(rect, placed)
  IN IF hits = {} THEN rect
     ELSE MoveTop(rect, placed[CHOOSE i \in hits : \A j \in hits : i <= j].y2 + margin)

\* line 1106: the rectangle ran off the bottom
Wraps(r) == r.y2 > WorkArea.y2

\* lines 1106-1109: wrap to the top of the next column
WrapColumn(r, margin) ==
  IF Wraps(r)
  THEN MoveLeft(MoveTop(r, WorkArea.y1 + margin), r.x1 + RectWidth(r) + margin)
  ELSE r

\* lines 1112-1113
PullLeft(r, margin) ==
  IF r.x2 > WorkArea.x2
  THEN MoveLeft(r, Max2(WorkArea.x1 + margin, WorkArea.x2 - RectWidth(r) - margin))
  ELSE r

\* lines 1114-1115
PushRight(r, margin) == IF r.x1 < WorkArea.x1 THEN MoveLeft(r, WorkArea.x1 + margin) ELSE r

\* one pass of the while loop of _resolve_overlaps (lines 1096-1120)
NudgeStep(rect, placed, margin) ==
  [rect |-> PushRight(PullLeft(WrapColumn(DropBelow(rect, placed, margin), margin),
                               margin), margin),
   collision |-> (Hits(rect, placed) # {} \/ Wraps(DropBelow(rect, placed, margin)))]

RECURSIVE Nudge(_, _, _, _)
RECURSIVE NudgeNext(_, _, _, _)
\* lines 1095-1120: the while loop
Nudge(rect, placed, margin, attempt) ==
  IF attempt >= 80 THEN rect
  ELSE NudgeNext(NudgeStep(rect, placed, margin), placed, margin, attempt)

NudgeNext(n, placed, margin, attempt) ==
  IF n.collision THEN Nudge(n.rect, placed, margin, attempt + 1) ELSE n.rect

\* line 1123
ClampLeft(r, margin) ==
  MoveLeft(r, Max2(WorkArea.x1 + margin, Min2(r.x1, WorkArea.x2 - RectWidth(r) - margin)))

\* line 1124
ClampTop(r, margin) ==
  MoveTop(r, Max2(WorkArea.y1 + margin, Min2(r.y1, WorkArea.y2 - RectHeight(r) - margin)))

\* lines 1090-1124 for one bubble: its final rectangle
PlaceBubble(rect, placed, margin) ==
  ClampTop(ClampLeft(Nudge(rect, placed, margin, 0), margin), margin)

RECURSIVE PlaceAll(_, _, _, _)
RECURSIVE PlaceAt(_, _, _, _, _, _)
\* lines 1090-1130; order: indexes of the visible bubbles sorted by (y, x)
PlaceAll(bubbles, order, placed, margin) ==
  IF order = <<>> THEN bubbles
  ELSE PlaceAt(bubbles, Head(order),
               PlaceBubble(BubbleGeometry(bubbles[Head(order)]), placed, margin),
               Tail(order), placed, margin)

\* lines 1126-1130: bubble.move(rect.topLeft()); placed.append(rect)
PlaceAt(bubbles, i, rect, order, placed, margin) ==
  PlaceAll([bubbles EXCEPT ![i].x = rect.x1, ![i].y = rect.y1],
           order, Append(placed, rect), margin)

\* TranslationOverlay._resolve_overlaps(margin=8)
_resolve_overlaps(bubbles, panel_visible, window_visible) ==
  LET vis == SelectSeq([i \in 1..Len(bubbles) |-> i],
                       LAMBDA i : bubbles[i].visible /\ window_visible)
      keyed == [n \in 1..Len(vis) |->
                  [k1 |-> bubbles[vis[n]].y, k2 |-> bubbles[vis[n]].x, v |-> vis[n]]]
      srt == SortKeyed(keyed, <<>>)
      order == [n \in 1..Len(srt) |-> srt[n].v]
  IN PlaceAll(bubbles, order, IF panel_visible THEN <<PanelGeometry>> ELSE <<>>, 8)

\* translations[:50]
FirstFifty(translations) ==
  IF Len(translations) > 50 THEN SubSeq(translations, 1, 50) ELSE translations

\* lines 1009-1048: what follows the matching
CleanUp(st, updated_area, panel_visible, window_visible) ==
  _resolve_overlaps(CapBubbles(RemoveStale(st.bubbles, st.matched, updated_area),
                               st.matched),
                    panel_visible, window_visible)

\* a plausible slip: an empty list empties the overlay
BadUpdateTranslations(bubbles, translations, updated_area, combine_mode, default_expanded, panel_visible, window_visible) ==
  IF translations = <<>> THEN <<>>
  ELSE CleanUp(ApplyResults([bubbles |-> bubbles, matched |-> {}],
                            ClusterResults(MergeResults(FirstFifty(translations)),
                                           combine_mode),
                            default_expanded),
               updated_area, panel_visible, window_visible)

\* TranslationOverlay.update_translations(translations, updated_area): the bubbles afterwards
update_translations(bubbles, translations, updated_area, combine_mode, default_expanded, panel_visible, window_visible) ==
  IF translations = <<>> THEN bubbles
  ELSE CleanUp(ApplyResults([bubbles |-> bubbles, matched |-> {}],
                            ClusterResults(MergeResults(FirstFifty(translations)),
                                           combine_mode),
                            default_expanded),
               updated_area, panel_visible, window_visible)

\* overlay.py 279-429, TranslationOverlay.update_translations of the earlier
\* window, for an empty translations list: it returns at once only when no
\* updated_area is given, and otherwise goes on to the stale cleanup and the cap
legacy_update_translations(bubbles, updated_area) ==
  IF updated_area = NoArea THEN bubbles
  ELSE CapBubbles(RemoveStale(bubbles, {}, updated_area), {})

\* TranslationOverlay.clear_translations: self.bubbles = []
clear_translations(bubbles) == <<>>

\* TranslationOverlay.get_bubble_geometries with the overlay window at `origin`:
\* for each bubble its display rectangle, then its source rectangle
BadBubbleGeometries(bubbles, origin) ==
  [i \in 1..Len(bubbles) |-> Translated(BubbleGeometry(bubbles[i]), origin.x, origin.y)]

RECURSIVE get_bubble_geometries(_, _)
get_bubble_geometries(bubbles, origin) ==
  IF bubbles = <<>> THEN <<>>
  ELSE LET b == Head(bubbles)
           r == b.result
       IN << Translated(BubbleGeometry(b), origin.x, origin.y),
             QRect(PyInt(r.x + 2 * origin.x), PyInt(r.y + 2 * origin.y),
                   PyInt(r.width), PyInt(r.height)) >>
          \o get_bubble_geometries(Tail(bubbles), origin)

\* the top-left corner of overlay_window.geometry()
OverlayOrigin == [x |-> Desktop.x1, y |-> Desktop.y1]

\* TranslationOverlay.get_redaction_geometries: the bubbles, then the control panel
get_redaction_geometries(bubbles, panel_visible) ==
  get_bubble_geometries(bubbles, OverlayOrigin)
    \o (IF panel_visible
        THEN <<Translated(PanelGeometry, OverlayOrigin.x, OverlayOrigin.y)>>
        ELSE <<>>)

----------------------------------------------------------------------------
(* The state *)

VARIABLES
  \* TranslationWorker (translation_workers.py)
  running,                  \* self.running
  wpc,                      \* where the worker thread is in run()
  ocr_reader,               \* TRUE when self.ocr_reader is an EasyOCR reader, FALSE when None
  redaction_margin,         \* self.redaction_margin
  active_geometries,        \* self.active_geometries
  last_hashes,              \* self.last_hashes, a dict: <<>> or one entry for "full"
  image_cache,              \* self.image_cache
  ocr_translation_cache,    \* self.ocr_translation_cache
  last_translation_signature, \* self._last_translation_signature
  image,                    \* local image_data of the cycle in progress
  ocr_regions,              \* local ocr_regions of the cycle in progress
  \* TransformersTranslator (translation_service.py)
  cache,                    \* self.cache
  \* TranslationOverlay and MainWindow (overlay_ui.py, main_window.py)
  bubbles,                  \* TranslationOverlay.bubbles
  panel_visible,            \* control_panel.isVisible()
  overlay_visible,          \* overlay_window.isVisible()
  combine_check,            \* control_panel.combine_check.isChecked()
  show_full_check,          \* control_panel.show_full_check.isChecked()
  queue,                    \* signals queued for the UI thread, oldest first
  warmup,                   \* TRUE while model_warmup_worker is running
  pending,                  \* TRUE when _pending_translation_start holds a configuration
  \* history, for stating properties
  cycle,                    \* number of cycles begun
  geomCycle,                \* the cycle whose request the last set_active_geometries answered
  snapBubbles,              \* TranslationOverlay.bubbles when that snapshot was taken
  g,                        \* what the cycle in progress (or the last one) did
  p,                        \* what the cycle before it did
  lastEmit,                 \* fingerprints of the last two emitted result sets
  clearSeen,                \* clear_all_translations ran since the last cycle began
  userActions,              \* how many times the user has acted
  probe                     \* inputs and outputs of the operations exercised directly

vars == <<running, wpc, ocr_reader, redaction_margin, active_geometries, last_hashes,
          image_cache, ocr_translation_cache, last_translation_signature, image,
          ocr_regions, cache, bubbles, panel_visible, overlay_visible, combine_check, show_full_check,
          queue, warmup, pending, cycle, geomCycle, snapBubbles, g, p, lastEmit, clearSeen, userActions,
          probe>>

workerVars == <<running, wpc, ocr_reader, redaction_margin, active_geometries, last_hashes,
                image_cache, ocr_translation_cache, last_translation_signature, image,
                ocr_regions>>

uiVars == <<bubbles, panel_visible, overlay_visible, combine_check, show_full_check, queue, warmup, pending>>

histVars == <<cycle, geomCycle, snapBubbles, g, p, lastEmit, clearSeen, userActions>>

----------------------------------------------------------------------------
(* Bounds and the environment *)

\* how many worker cycles and user actions (start, stop, clear, drag, dismiss) a
\* run has in total
MaxEvents == 4

MaxQueue == 3

\* margin_spin.value(): the control panel's redaction margin setting
MarginSpin == 15

Item(text, x0, y0, x1, y1, prob) ==
  [text |-> text, x0 |-> x0, y0 |-> y0, x1 |-> x1, y1 |-> y1, prob |-> prob]

\* What the screen can show.  1: a line of text; 2: the same line drawn half a
\* pixel further right and read with a trailing blank; 3: nothing but a line
\* the OCR engine is unsure about (confidence below 0.2).
Screen(n) ==
  CASE n = 1 -> [grid |-> 1, painted |-> {},
                 items |-> <<Item(<<"a">>, 1400, 800, 1560, 840, 9)>>]
    [] n = 2 -> [grid |-> 2, painted |-> {},
                 items |-> <<Item(<<"a", " ">>, 1401, 800, 1561, 840, 9)>>]
    [] n = 3 -> [grid |-> 3, painted |-> {},
                 items |-> <<Item(<<"b">>, 1400, 1000, 1560, 1040, 1)>>]

Screens == 1..3

NoImage == [grid |-> 0, painted |-> {}, items |-> <<>>]

NoHash == [some |-> FALSE]

SomeHash(h) == [some |-> TRUE, v |-> h]

NoFp == [some |-> FALSE]

SomeFp(fp) == [some |-> TRUE, fp |-> fp]

\* the record of a cycle that has just begun
NewCycle(afterClear) ==
  [hash |-> NoHash, geoms |-> <<>>, live |-> <<>>, snap |-> 0, cap |-> "no",
   raw |-> NoImage, ocr |-> FALSE,
   tr |-> FALSE,
   emits |-> 0, fail |-> FALSE, cleared |-> FALSE,
   afterClear |-> afterClear, hit |-> "none", done |-> FALSE]

----------------------------------------------------------------------------
(* Construction *)

NoProbe == [op |-> "none"]

Init ==
  /\ running = FALSE
  /\ wpc = "off"
  /\ ocr_reader \in BOOLEAN
  /\ redaction_margin = 15
  /\ active_geometries = <<>>
  /\ last_hashes = <<>>
  /\ image_cache = <<>>
  /\ ocr_translation_cache = <<>>
  /\ last_translation_signature = NoSignature
  /\ image = NoImage
  /\ ocr_regions = <<>>
  /\ cache = <<>>
  /\ bubbles = <<>>
  /\ panel_visible = FALSE
  /\ overlay_visible = TRUE
  \* load_settings: the stored values, "true" when nothing is stored
  /\ combine_check = TRUE
  /\ show_full_check = TRUE
  /\ queue = <<>>
  /\ warmup = FALSE
  /\ pending = FALSE
  /\ cycle = 0
  /\ geomCycle = 0
  /\ snapBubbles = <<>>
  /\ g = [NewCycle(FALSE) EXCEPT !.done = TRUE]
  /\ p = [NewCycle(FALSE) EXCEPT !.done = TRUE]
  /\ lastEmit = [prev |-> NoFp, cur |-> NoFp]
  /\ clearSeen = FALSE
  /\ userActions = 0
  /\ probe = NoProbe

----------------------------------------------------------------------------
(* The worker thread: TranslationWorker.run and _translate_with_ocr *)

\* a plausible slip: the comparison with the last hash never succeeds
BadLastHashIs(h) == FALSE

\* last_hashes.get("full") == image_hash
LastHashIs(h) == last_hashes # <<>> /\ last_hashes[1].hash = h

\* last_hashes["full"] = image_hash
SetLastHash(h) == <<[key |-> "full", hash |-> h]>>

Ready(translations) == [type |-> "ready", translations |-> translations, cycle |-> cycle]

\* lines 200-207, 279-286, 304-311: compare the signature of the result set with
\* the last one and emit translation_ready unless they are equal
EmitUnlessUnchanged(translations) ==
  LET fp == _fingerprint_translations(translations)
      emit == Signature(fp) # last_translation_signature
  IN /\ last_translation_signature' = Signature(fp)
     /\ queue' = IF emit THEN Append(queue, Ready(translations)) ELSE queue
     /\ lastEmit' = IF emit THEN [prev |-> lastEmit.cur, cur |-> SomeFp(fp)] ELSE lastEmit

\* a plausible slip: the loop never looks at the flag
BadWhileRunning(flag) == TRUE

\* line 129: while self.running
WhileRunning(flag) == flag

\* lines 129-132: the top of the loop; a running worker asks for the geometries
W_LoopTop ==
  /\ wpc = "loop"
  /\ IF WhileRunning(running)
     THEN /\ cycle + userActions < MaxEvents
          /\ Len(queue) + 2 <= MaxQueue
          /\ cycle' = cycle + 1
          /\ queue' = Append(queue, [type |-> "prepare", cycle |-> cycle + 1])
          /\ wpc' = "begin"
          /\ p' = g
          /\ g' = NewCycle(clearSeen)
          /\ clearSeen' = FALSE
     ELSE /\ wpc' = "off"
          /\ UNCHANGED <<cycle, queue, p, g, clearSeen>>
  /\ UNCHANGED <<running, ocr_reader, redaction_margin, active_geometries, last_hashes,
                 image_cache, ocr_translation_cache, last_translation_signature, image,
                 ocr_regions, cache, bubbles, panel_visible, overlay_visible,
                 combine_check, show_full_check, warmup, pending, geomCycle, snapBubbles, lastEmit,
                 userActions, probe>>

\* lines 273-286 and the way on to the translator: the OCR-fingerprint cache lookup
\* for the regions regs of the image with hash h; cyc is the cycle's record so far
\* and ic the image cache so far
AfterOcr(h, regs, cyc, ic) ==
  LET ocr_signature == _fingerprint_ocr_regions(regs)
      hit == /\ CacheHas(ocr_translation_cache, ocr_signature)
             /\ CacheEntry(ocr_translation_cache, ocr_signature).translations # <<>>
      cached_translations == CacheEntry(ocr_translation_cache, ocr_signature).translations
  IN IF hit
     THEN LET emit == Signature(_fingerprint_translations(cached_translations))
                         # last_translation_signature
          IN /\ image_cache' = _store_image_cache(ic, h, TRUE, regs,
                                                  TRUE, cached_translations)
             /\ EmitUnlessUnchanged(cached_translations)
             /\ wpc' = "loop"
             /\ g' = [cyc EXCEPT !.hit = "ocrsig", !.done = TRUE,
                                 !.emits = IF emit THEN @ + 1 ELSE @]
     ELSE /\ image_cache' = ic
          /\ wpc' = "translate"
          /\ g' = cyc
          /\ UNCHANGED <<last_translation_signature, queue, lastEmit>>

\* a plausible slip: the raw capture goes on to the hash and to OCR
BadRedacted(screen) == screen

\* lines 169-184: the capture with the geometries at hand painted over
Redacted(screen) ==
  IF active_geometries # <<>>
  THEN _redact_image(screen, active_geometries, Desktop.x1, Desktop.y1, redaction_margin)
  ELSE screen

\* lines 158-219 after a capture of `screen`: redact with the geometries at hand,
\* hash, look the hash up
Lookup(screen) ==
  LET img == Redacted(screen)
      image_hash == calculate_hash(img)
      cyc == [g EXCEPT !.hash = SomeHash(image_hash), !.geoms = active_geometries,
                       !.snap = geomCycle, !.live = snapBubbles,
                       !.cap = IF screen = NoImage THEN "none" ELSE "image",
                       !.raw = screen]
      known == CacheHas(image_cache, image_hash)
      cached_entry == CacheEntry(image_cache, image_hash)
  IN /\ image' = img
     /\ IF known /\ cached_entry.hasTr /\ cached_entry.translations # <<>>
        THEN LET emit == Signature(_fingerprint_translations(cached_entry.translations))
                           # last_translation_signature
             IN /\ last_hashes' = SetLastHash(image_hash)
                /\ EmitUnlessUnchanged(cached_entry.translations)
                /\ wpc' = "loop"
                /\ g' = [cyc EXCEPT !.hit = "image", !.done = TRUE,
                                    !.emits = IF emit THEN @ + 1 ELSE @]
                /\ UNCHANGED <<image_cache, ocr_regions>>
        ELSE IF LastHashIs(image_hash)
        THEN /\ wpc' = "loop"
             /\ g' = [cyc EXCEPT !.hit = "unchanged", !.done = TRUE]
             /\ UNCHANGED <<last_hashes, image_cache, ocr_regions,
                            last_translation_signature, queue, lastEmit>>
        ELSE /\ last_hashes' = SetLastHash(image_hash)
             /\ IF known /\ cached_entry.hasOcr
                THEN /\ ocr_regions' = cached_entry.ocr
                     /\ AfterOcr(image_hash, cached_entry.ocr, cyc, image_cache)
                ELSE /\ wpc' = "ocr"
                     /\ g' = cyc
                     /\ UNCHANGED <<image_cache, ocr_regions,
                                    last_translation_signature, queue, lastEmit>>

\* screen_capture.py 36-66, ScreenCapture.capture_screen: the picture of screen
\* s, or None (NoImage) when no backend delivers one (s = 0)
capture_screen(s) == IF s = 0 THEN NoImage ELSE Screen(s)

\* a plausible slip: a capture without data is taken for a picture
BadNoData(image_data) == FALSE

\* line 165: not image_data
NoData(image_data) == image_data = NoImage

\* a plausible slip: the cycle goes on without an OCR reader
BadNoReader(reader) == FALSE

\* line 158: not self.ocr_reader
NoReader(reader) == ~reader

\* lines 155-219: without an OCR reader the cycle emits the status message
\* "EasyOCR not available" and returns (cap "idle"); otherwise the capture, after
\* which the cycle returns when there is no data or the worker was stopped, and
\* the lookups
W_Capture ==
  /\ wpc = "begin"
  /\ \E s \in Screens \cup {0} :
       IF NoReader(ocr_reader)
       THEN /\ wpc' = "loop"
            /\ g' = [g EXCEPT !.done = TRUE, !.cap = "idle"]
            /\ UNCHANGED <<image, last_hashes, image_cache, ocr_regions,
                           last_translation_signature, queue, lastEmit>>
       ELSE IF NoData(capture_screen(s)) \/ ~running
       THEN /\ wpc' = "loop"
            /\ g' = [g EXCEPT !.done = TRUE,
                              !.cap = IF capture_screen(s) = NoImage THEN "none" ELSE "image"]
            /\ UNCHANGED <<image, last_hashes, image_cache, ocr_regions,
                           last_translation_signature, queue, lastEmit>>
       ELSE Lookup(capture_screen(s))
  /\ UNCHANGED <<running, ocr_reader, redaction_margin, active_geometries,
                 ocr_translation_cache, cache, bubbles, panel_visible, overlay_visible,
                 combine_check, show_full_check, warmup, pending, cycle, geomCycle, snapBubbles, p,
                 clearSeen, userActions, probe>>

\* lines 221-267 (and on to 273-286): the OCR call and what is done with its results
W_Ocr ==
  /\ wpc = "ocr"
  /\ LET image_hash == calculate_hash(image)
         results == readtext(image)
         regs == FormatOcrResults(results)
         cyc == [g EXCEPT !.ocr = TRUE]
     IN \E outcome \in {"ok", "raise"} :
          IF outcome = "raise"
          THEN /\ wpc' = "loop"
               /\ g' = [cyc EXCEPT !.fail = TRUE, !.done = TRUE]
               /\ UNCHANGED <<image_cache, ocr_regions, last_translation_signature,
                              queue, lastEmit>>
          ELSE IF regs = <<>>
          THEN /\ image_cache' = _store_image_cache(image_cache, image_hash, TRUE, <<>>,
                                                    FALSE, <<>>)
               /\ last_translation_signature' = EmptySignature
               /\ wpc' = "loop"
               /\ g' = [cyc EXCEPT !.done = TRUE]
               /\ UNCHANGED <<ocr_regions, queue, lastEmit>>
          ELSE /\ ocr_regions' = regs
               /\ AfterOcr(image_hash, regs, cyc,
                           _store_image_cache(image_cache, image_hash, TRUE, regs,
                                              FALSE, <<>>))
  /\ UNCHANGED <<running, ocr_reader, redaction_margin, active_geometries, last_hashes,
                 ocr_translation_cache, image, cache, bubbles, panel_visible,
                 overlay_visible, combine_check, show_full_check, warmup, pending, cycle,
                 geomCycle, snapBubbles, p, clearSeen, userActions, probe>>

\* lines 288-313: the translator call and what is done with its results
W_Translate ==
  /\ wpc = "translate"
  /\ \E outcome \in TranslatorOutcomes :
       LET image_hash == calculate_hash(image)
           ocr_signature == _fingerprint_ocr_regions(ocr_regions)
           r == translate_text_regions(cache, ocr_regions, outcome)
           translated_results == r.results
           emit == Signature(_fingerprint_translations(translated_results))
                     # last_translation_signature
           cyc == [g EXCEPT !.tr = TRUE, !.done = TRUE]
       IN /\ cache' = r.cache
          /\ IF translated_results # <<>>
             THEN /\ image_cache' = _store_image_cache(image_cache, image_hash, TRUE,
                                                       ocr_regions, TRUE, translated_results)
                  /\ ocr_translation_cache' =
                       _store_translation_signature(ocr_translation_cache, ocr_signature,
                                                    translated_results)
                  /\ EmitUnlessUnchanged(translated_results)
                  /\ g' = [cyc EXCEPT !.emits = IF emit THEN @ + 1 ELSE @]
             ELSE /\ g' = [cyc EXCEPT !.fail = TRUE]
                  /\ UNCHANGED <<image_cache, ocr_translation_cache,
                                 last_translation_signature, queue, lastEmit>>
  /\ wpc' = "loop"
  /\ UNCHANGED <<running, ocr_reader, redaction_margin, active_geometries, last_hashes,
                 image, ocr_regions, bubbles, panel_visible, overlay_visible, combine_check,
                 show_full_check, warmup, pending, cycle, geomCycle, snapBubbles, p, clearSeen, userActions,
                 probe>>

----------------------------------------------------------------------------
(* The UI thread: MainWindow and TranslationOverlay handlers *)


\* main_window.py 596-626, MainWindow.start_translation: launch the model warm-up
UI_StartTranslation ==
  /\ cycle + userActions < MaxEvents
  /\ userActions' = userActions + 1
  /\ IF warmup
     THEN UNCHANGED <<pending, warmup>>
     ELSE pending' = TRUE /\ warmup' = TRUE
  /\ UNCHANGED <<workerVars, cache, bubbles, panel_visible, overlay_visible, combine_check,
                 show_full_check, queue, cycle, geomCycle, snapBubbles, g, p, lastEmit, clearSeen, probe>>

\* translation_workers.py 452-459, ModelWarmupWorker.run: warmup_finished(ok, err)
Warmup_Run ==
  /\ warmup
  /\ warmup' = FALSE
  /\ \E ok \in BOOLEAN : queue' = Append(queue, [type |-> "warmup", ok |-> ok])
  /\ UNCHANGED <<workerVars, cache, bubbles, panel_visible, overlay_visible, combine_check,
                 show_full_check, pending, histVars, probe>>

\* translation_workers.py 113-123, TranslationWorker.clear_hashes, and its trace in
\* the history
clear_hashes ==
  /\ last_hashes' = <<>>
  /\ image_cache' = <<>>
  /\ ocr_translation_cache' = <<>>
  /\ last_translation_signature' = NoSignature
  /\ cache' = <<>>
  /\ lastEmit' = [prev |-> NoFp, cur |-> NoFp]
  /\ g' = [g EXCEPT !.cleared = TRUE]

\* main_window.py 628-671, MainWindow._on_model_warmup_finished
on_model_warmup_finished(ok) ==
  IF ok /\ pending
  THEN /\ pending' = FALSE
       \* set_config: the margin, and _init_ocr, which keeps a reader it has
       /\ redaction_margin' = MarginSpin
       /\ \E made \in BOOLEAN : ocr_reader' = (ocr_reader \/ made)
       /\ clear_hashes
       \* start_translation: QThread.start does nothing for a thread that runs
       /\ running' = TRUE
       /\ wpc' = IF wpc = "off" THEN "loop" ELSE wpc
       \* translation_overlay.show()
       /\ panel_visible' = TRUE
       /\ overlay_visible' = TRUE
       /\ UNCHANGED <<active_geometries, image, ocr_regions, bubbles, geomCycle, snapBubbles>>
  ELSE /\ pending' = FALSE
       /\ UNCHANGED <<workerVars, cache, bubbles, panel_visible, overlay_visible,
                      geomCycle, snapBubbles, g, lastEmit>>

\* main_window.py 473-477, MainWindow.on_translation_worker_capture_prepare
on_translation_worker_capture_prepare(ev) ==
  /\ active_geometries' = get_redaction_geometries(bubbles, panel_visible /\ overlay_visible)
  /\ geomCycle' = ev.cycle
  /\ snapBubbles' = bubbles
  /\ UNCHANGED <<running, wpc, ocr_reader, redaction_margin, last_hashes, image_cache,
                 ocr_translation_cache, last_translation_signature, image, ocr_regions,
                 cache, bubbles, panel_visible, overlay_visible, pending, g, lastEmit>>

\* overlay_ui.py 795-1048, the slot of translation_ready(list, None)
on_translation_ready(ev) ==
  /\ bubbles' = update_translations(bubbles, ev.translations, NoArea, combine_check,
                                    show_full_check, panel_visible /\ overlay_visible,
                                    overlay_visible)
  /\ UNCHANGED <<workerVars, cache, panel_visible, overlay_visible, pending, geomCycle, snapBubbles, g,
                 lastEmit>>

\* the UI event loop delivers the oldest queued signal to its slot
UI_Dispatch ==
  /\ queue # <<>>
  /\ LET ev == Head(queue)
     IN /\ queue' = Tail(queue)
        /\ CASE ev.type = "prepare" -> on_translation_worker_capture_prepare(ev)
             [] ev.type = "ready" -> on_translation_ready(ev)
             [] ev.type = "warmup" -> on_model_warmup_finished(ev.ok)
  /\ UNCHANGED <<combine_check, show_full_check, warmup, cycle, p, clearSeen, userActions, probe>>

\* main_window.py 673-689, MainWindow.stop_translation
UI_StopTranslation ==
  /\ cycle + userActions < MaxEvents
  /\ userActions' = userActions + 1
  /\ IF warmup THEN pending' = FALSE /\ warmup' = FALSE ELSE UNCHANGED <<pending, warmup>>
  /\ running' = FALSE
  /\ panel_visible' = FALSE
  /\ overlay_visible' = FALSE
  /\ UNCHANGED <<wpc, ocr_reader, redaction_margin, active_geometries, last_hashes,
                 image_cache, ocr_translation_cache, last_translation_signature, image,
                 ocr_regions, cache, bubbles, combine_check, show_full_check, queue, cycle,
                 geomCycle, snapBubbles, g, p, lastEmit, clearSeen, probe>>

\* main_window.py 583-587, MainWindow.clear_all_translations
UI_ClearAll ==
  /\ cycle + userActions < MaxEvents
  /\ userActions' = userActions + 1
  /\ bubbles' = clear_translations(bubbles)
  /\ clear_hashes
  /\ clearSeen' = TRUE
  /\ UNCHANGED <<running, wpc, ocr_reader, redaction_margin, active_geometries, image,
                 ocr_regions, panel_visible, overlay_visible, combine_check,
                 show_full_check, queue, warmup, pending, cycle, geomCycle, snapBubbles, p, probe>>

\* how far a drag moves a bubble
DragBy == [x |-> 300, y |-> 0]

\* overlay_ui.py 649-658, TranslationBubble.mouseMoveEvent: the user drags bubble i
UI_DragBubble ==
  /\ cycle + userActions < MaxEvents
  /\ \E i \in 1..Len(bubbles) :
       /\ bubbles[i].visible /\ overlay_visible
       /\ bubbles' = [bubbles EXCEPT ![i].x = @ + DragBy.x, ![i].y = @ + DragBy.y]
  /\ userActions' = userActions + 1
  /\ UNCHANGED <<workerVars, cache, panel_visible, overlay_visible, combine_check,
                 show_full_check, queue, warmup, pending, cycle, geomCycle, snapBubbles, g, p, lastEmit,
                 clearSeen, probe>>

\* overlay_ui.py 1132-1140, _remove_bubble
_remove_bubble(bs, i) == SubSeq(bs, 1, i - 1) \o SubSeq(bs, i + 1, Len(bs))

\* overlay_ui.py 480, 645-646: the user dismisses bubble i (close button or right
\* click): deleteLater destroys the widget and destroyed reaches _remove_bubble
UI_DismissBubble ==
  /\ cycle + userActions < MaxEvents
  /\ \E i \in 1..Len(bubbles) :
       /\ bubbles[i].visible /\ overlay_visible
       /\ bubbles' = _remove_bubble(bubbles, i)
  /\ userActions' = userActions + 1
  /\ UNCHANGED <<workerVars, cache, panel_visible, overlay_visible, combine_check,
                 show_full_check, queue, warmup, pending, cycle, geomCycle, snapBubbles, g, p, lastEmit,
                 clearSeen, probe>>

----------------------------------------------------------------------------
(* The pipeline: one worker thread and the UI thread *)

Next ==
  \/ W_LoopTop
  \/ W_Capture
  \/ W_Ocr
  \/ W_Translate
  \/ Warmup_Run
  \/ UI_StartTranslation
  \/ UI_StopTranslation
  \/ UI_Dispatch
  \/ UI_ClearAll
  \/ UI_DragBubble
  \/ UI_DismissBubble

Spec == Init /\ [][Next]_vars


\* C34: update_translations with an empty list and no updated_area, in the
\* overlay of either window, leaves the list of annotations as it was: the same
\* bubbles with the same contents, positions and visibility.
C34_EmptyResultKeepsOverlay ==
  (/\ probe.op \in {"overlay", "legacy"} /\ probe.calls > 0
   /\ probe.translations = <<>> /\ probe.area = NoArea) =>
     bubbles = probe.before

\* the call with an empty list was made while annotations were on screen
C34_Witness ==
  /\ probe.op = "overlay" /\ probe.calls > 0
  /\ probe.translations = <<>> /\ probe.area = NoArea
  /\ probe.before # <<>> /\ bubbles # <<>>

\* the same in the overlay of the earlier window
C34_Witness_Legacy ==
  /\ probe.op = "legacy" /\ probe.translations = <<>> /\ probe.area = NoArea
  /\ probe.before # <<>> /\ bubbles # <<>>

----------------------------------------------------------------------------
(* Properties of the pipeline *)

\* C1: with no clear_hashes in between, the worker never emits translation_ready
\* for a result set whose fingerprint equals that of the result set it emitted
\* last.  (lastEmit holds the fingerprints of the last two emissions since the
\* last clear_hashes.)
C1_NoRepeatedEmit ==
  ~(lastEmit.prev.some /\ lastEmit.cur.some /\ lastEmit.cur.fp = lastEmit.prev.fp)

\* two consecutive cycles hashed the same image with the same redaction geometries
SameFrameTwice ==
  /\ p.hash.some /\ g.hash.some /\ g.done
  /\ g.hash = p.hash /\ g.geoms = p.geoms

\* C2 as stated: two consecutive cycles on the same image fingerprint with
\* unchanged redaction geometries emit at most one translation_ready together,
\* and the second invokes neither the OCR engine nor the translator.
C2_SameFrameOneEmit ==
  SameFrameTwice => (p.emits + g.emits <= 1 /\ ~g.ocr /\ ~g.tr)

\* C2 amended: the same, provided clear_hashes does not run from the start of the
\* first of the two cycles to the end of the second.
C2_SameFrameOneEmitUnlessCleared ==
  (SameFrameTwice /\ ~p.cleared /\ ~g.cleared)
    => (p.emits + g.emits <= 1 /\ ~g.ocr /\ ~g.tr)

\* the first cycle translated and emitted, the second was served the same frame
C2_Witness ==
  /\ SameFrameTwice /\ ~p.cleared /\ ~g.cleared
  /\ p.ocr /\ p.tr /\ p.emits = 1 /\ g.hit = "image"

\* C3: after a cycle in which the OCR call raised or the translator gave no
\* results, the next cycle on an identical image runs OCR again instead of being
\* skipped or served from a cache.
C3_FailureIsRetried ==
  (p.fail /\ p.hash.some /\ g.hash.some /\ g.done /\ g.hash = p.hash)
    => (g.hit = "none" /\ g.ocr)

\* the OCR-fingerprint cache holds translations for the fingerprint of regs
OcrSignatureKnown(regs) ==
  /\ CacheHas(ocr_translation_cache, _fingerprint_ocr_regions(regs))
  /\ CacheEntry(ocr_translation_cache, _fingerprint_ocr_regions(regs)).translations # <<>>

\* C6: the translator is invoked only for OCR output whose fingerprint has no
\* entry in the OCR-fingerprint cache; on a hit the cycle does not invoke it, and
\* the image cache holds the frame's OCR output and the cached translations
\* under the frame's image hash.
C6_OcrHitSkipsTranslator ==
  /\ wpc = "translate" => ~OcrSignatureKnown(ocr_regions)
  /\ (g.hit = "ocrsig" /\ ~g.cleared) =>
       /\ ~g.tr
       /\ OcrSignatureKnown(ocr_regions)
       /\ CacheHas(image_cache, g.hash.v)
       /\ CacheEntry(image_cache, g.hash.v).hasOcr
       /\ CacheEntry(image_cache, g.hash.v).ocr = ocr_regions
       /\ CacheEntry(image_cache, g.hash.v).hasTr
       /\ CacheEntry(image_cache, g.hash.v).translations =
            CacheEntry(ocr_translation_cache,
                       _fingerprint_ocr_regions(ocr_regions)).translations

\* a frame whose image differs from the previous one went through OCR and was
\* served from the OCR-fingerprint cache
C6_Witness ==
  /\ g.hit = "ocrsig" /\ ~g.cleared /\ g.ocr
  /\ p.hash.some /\ p.tr /\ g.hash # p.hash

\* C7: the first cycle that starts after clear_all_translations and gets an image
\* performs OCR again.
C7_ClearForcesReanalysis ==
  (g.afterClear /\ g.hash.some /\ g.done) => g.ocr

\* C8: the geometries a cycle redacts with are the ones the UI thread published
\* in answer to that cycle's request.
C8_SnapshotOfThisCycle ==
  g.hash.some => g.snap = cycle

\* the display rectangle and the source rectangle of a bubble in global coordinates
DisplayRect(b) == Translated(BubbleGeometry(b), OverlayOrigin.x, OverlayOrigin.y)

GlobalSourceRect(b) == Translated(SourceRect(b.result), OverlayOrigin.x, OverlayOrigin.y)

\* the rectangle r of the captured image covers the box of the result res
CoversText(r, res) ==
  /\ 2 * (r.x1 + Desktop.x1) <= res.x /\ res.x + res.width <= 2 * (r.x2 + Desktop.x1 + 1)
  /\ 2 * (r.y1 + Desktop.y1) <= res.y /\ res.y + res.height <= 2 * (r.y2 + Desktop.y1 + 1)

\* what redaction paints for a rectangle in global coordinates
PaintedFor(r) ==
  Adjusted(Translated(r, -Desktop.x1, -Desktop.y1),
           -redaction_margin, -redaction_margin, redaction_margin, redaction_margin)

----------------------------------------------------------------------------
(* The three cache tiers at their real capacities *)

\* how many cache operations a run of SpecCache has
MaxCacheOps == 3

CacheTiers == {"image", "ocr", "string"}

\* the capacity of a tier
Capacity(tier) ==
  CASE tier = "image" -> image_cache_max
    [] tier = "ocr" -> translation_cache_max
    [] tier = "string" -> cache_max_items

RECURSIVE Digits(_)
\* str(k) for k >= 0
Digits(k) ==
  IF k < 10 THEN <<SubSeq(<<"0", "1", "2", "3", "4", "5", "6", "7", "8", "9">>, k + 1, k + 1)[1]>>
  ELSE Append(Digits(k \div 10), Digits(k % 10)[1])

\* the k-th frame, OCR output and source text, and the keys the tiers file them under
FrameK(k) == [grid |-> k, painted |-> {}, items |-> <<>>]

RegionK(k) == [text |-> Digits(k), x |-> 2 * k, y |-> 0, width |-> 160, height |-> 40]

TierKey(tier, k) ==
  CASE tier = "image" -> calculate_hash(FrameK(k))
    [] tier = "ocr" -> _fingerprint_ocr_regions(<<RegionK(k)>>)
    [] tier = "string" -> CacheKey(Digits(k))

\* the translations of the k-th OCR output
TranslationsK(k) == <<TranslationResult(ModelOutput(Digits(k)), RegionK(k))>>

\* a tier as k stores of distinct keys leave it (first stored first)
FilledImageCache(n) ==
  [k \in 1..n |-> [key |-> TierKey("image", k), hasOcr |-> TRUE, ocr |-> <<RegionK(k)>>,
                   hasTr |-> FALSE, translations |-> <<>>]]

FilledOcrCache(n) ==
  [k \in 1..n |-> [key |-> TierKey("ocr", k), translations |-> TranslationsK(k)]]

FilledStringCache(n) ==
  [k \in 1..n |-> [key |-> TierKey("string", k), value |-> ModelOutput(Digits(k))]]

\* the tier's cache in the current state
TierCache(tier) ==
  CASE tier = "image" -> image_cache
    [] tier = "ocr" -> ocr_translation_cache
    [] tier = "string" -> cache

\* the numbers of the keys looked up and stored: old ones, the newest, new ones
ProbeKeys(tier) == {1, 2, Capacity(tier), Capacity(tier) + 1, Capacity(tier) + 2}

\* the order of use after key is used: least recently used first
Touch(use, key) == Append(SelectSeq(use, LAMBDA u : u # key), key)

\* the order of use restricted to the keys still held
Held(use, c) == SelectSeq(use, LAMBDA u : \E i \in 1..Len(c) : c[i].key = u)

InitCache ==
  /\ running = FALSE
  /\ wpc = "off"
  /\ ocr_reader = TRUE
  /\ redaction_margin = 15
  /\ active_geometries = <<>>
  /\ last_hashes = <<>>
  /\ last_translation_signature = NoSignature
  /\ image = NoImage
  /\ ocr_regions = <<>>
  /\ bubbles = <<>>
  /\ panel_visible = FALSE
  /\ overlay_visible = TRUE
  /\ combine_check = TRUE
  /\ show_full_check = TRUE
  /\ queue = <<>>
  /\ warmup = FALSE
  /\ pending = FALSE
  /\ cycle = 0
  /\ geomCycle = 0
  /\ snapBubbles = <<>>
  /\ g = [NewCycle(FALSE) EXCEPT !.done = TRUE]
  /\ p = [NewCycle(FALSE) EXCEPT !.done = TRUE]
  /\ lastEmit = [prev |-> NoFp, cur |-> NoFp]
  /\ clearSeen = FALSE
  /\ userActions = 0
  /\ \E tier \in CacheTiers : \E fill \in {Capacity(tier) - 1, Capacity(tier)} :
       /\ image_cache = IF tier = "image" THEN FilledImageCache(fill) ELSE <<>>
       /\ ocr_translation_cache = IF tier = "ocr" THEN FilledOcrCache(fill) ELSE <<>>
       /\ cache = IF tier = "string" THEN FilledStringCache(fill) ELSE <<>>
       /\ probe = [op |-> "cache", tier |-> tier, n |-> 0,
                   use |-> [k \in 1..fill |-> TierKey(tier, k)],
                   last |-> [op |-> "none"]]

\* translation_workers.py 195 and 274, translation_service.py 48-56: a lookup.
\* The two worker caches are read with OrderedDict.get; the string cache with
\* _cache_get, which moves a key it finds to the end.
Cache_Lookup ==
  /\ probe.op = "cache" /\ probe.n < MaxCacheOps
  /\ \E k \in ProbeKeys(probe.tier) :
       LET key == TierKey(probe.tier, k)
           before == TierCache(probe.tier)
           found == CacheHas(before, key)
       IN /\ cache' = IF probe.tier = "string" THEN _cache_get(cache, key) ELSE cache
          /\ probe' = [probe EXCEPT !.n = @ + 1,
                         !.use = IF found THEN Touch(@, key) ELSE @,
                         !.last = [op |-> "lookup", key |-> key, found |-> found,
                                   before |-> CacheKeys(before), useBefore |-> probe.use]]
  /\ UNCHANGED <<workerVars, bubbles, panel_visible, overlay_visible, combine_check,
                 show_full_check, queue, warmup, pending, histVars>>

\* translation_workers.py 340-395, translation_service.py 58-82: the tier after
\* the store of the k-th key
StoreInTier(tier, k) ==
  CASE tier = "image" ->
         _store_image_cache(image_cache, TierKey(tier, k), TRUE, <<RegionK(k)>>, FALSE, <<>>)
    [] tier = "ocr" ->
         _store_translation_signature(ocr_translation_cache, TierKey(tier, k),
                                      TranslationsK(k))
    [] tier = "string" -> _cache_set(cache, TierKey(tier, k), ModelOutput(Digits(k)))

\* a store in the tier under test
Cache_Store ==
  /\ probe.op = "cache" /\ probe.n < MaxCacheOps
  /\ \E k \in ProbeKeys(probe.tier) :
       LET key == TierKey(probe.tier, k)
           before == TierCache(probe.tier)
           after == StoreInTier(probe.tier, k)
       IN /\ image_cache' = IF probe.tier = "image" THEN after ELSE image_cache
          /\ ocr_translation_cache' = IF probe.tier = "ocr" THEN after
                                      ELSE ocr_translation_cache
          /\ cache' = IF probe.tier = "string" THEN after ELSE cache
          /\ probe' = [probe EXCEPT !.n = @ + 1,
                         !.use = Held(Touch(@, key), after),
                         !.last = [op |-> "store", key |-> key,
                                   found |-> CacheHas(before, key),
                                   before |-> CacheKeys(before), useBefore |-> probe.use]]
  /\ UNCHANGED <<running, wpc, ocr_reader, redaction_margin, active_geometries, last_hashes,
                 last_translation_signature, image, ocr_regions, bubbles, panel_visible,
                 overlay_visible, combine_check, show_full_check, queue, warmup, pending,
                 histVars>>

NextCache == Cache_Lookup \/ Cache_Store

SpecCache == InitCache /\ [][NextCache]_vars

\* the last operation stored a key the full tier did not hold
StoredNewKeyWhenFull ==
  /\ probe.op = "cache" /\ probe.last.op = "store"
  /\ ~probe.last.found
  /\ Len(probe.last.before) = Capacity(probe.tier)

\* C4: when storing a new key makes a tier exceed its capacity, exactly one
\* entry is evicted, it is the least recently used one (a lookup hit and a store
\* both count as a use), and all other entries remain.
C4_EvictsLeastRecentlyUsed ==
  StoredNewKeyWhenFull =>
    Range(CacheKeys(TierCache(probe.tier))) =
      (Range(probe.last.before) \ {Head(probe.last.useBefore)}) \cup {probe.last.key}

\* C5: the image cache holds at most 8 entries, the OCR-fingerprint cache at most
\* 16, the string cache at most 500, and a store never evicts the key it stored.
C5_CachesBounded ==
  /\ Len(image_cache) <= 8
  /\ Len(ocr_translation_cache) <= 16
  /\ Len(cache) <= 500
  /\ (probe.op = "cache" /\ probe.last.op = "store") =>
       CacheHas(TierCache(probe.tier), probe.last.key)

\* a new key was stored in a full tier, which is still full
C5_Witness ==
  /\ StoredNewKeyWhenFull
  /\ Len(TierCache(probe.tier)) = Capacity(probe.tier)

----------------------------------------------------------------------------
(* Redaction on its own: full-screen captures and sub-region captures *)

\* geometries handed to the worker, in global screen coordinates
Geoms == {QRect(100, 100, 80, 20), QRect(0, 0, 1, 1), QRect(700, 400, 400, 250),
          QRect(-50, 30, 60, 40)}

\* values of the redaction margin setting
Margins == {0, 15, 16}

\* top-left corners of the virtual desktop (a monitor left of the primary one
\* makes it negative)
Origins == {[x |-> 0, y |-> 0], [x |-> -1920, y |-> 0]}

\* enabled TranslationRegions of workers.py
Regions == {[x |-> 50, y |-> 60, width |-> 400, height |-> 300],
            [x |-> 600, y |-> 300, width |-> 800, height |-> 600]}

InitRedact ==
  /\ running = FALSE
  /\ wpc = "off"
  /\ ocr_reader = TRUE
  /\ redaction_margin \in Margins
  /\ active_geometries \in {<<a>> : a \in Geoms}
                            \cup {pr \in Geoms \X Geoms : pr[1] # pr[2]}
  /\ last_hashes = <<>>
  /\ image_cache = <<>>
  /\ ocr_translation_cache = <<>>
  /\ last_translation_signature = NoSignature
  /\ image = Screen(1)
  /\ ocr_regions = <<>>
  /\ cache = <<>>
  /\ bubbles = <<>>
  /\ panel_visible = FALSE
  /\ overlay_visible = TRUE
  /\ combine_check = TRUE
  /\ show_full_check = TRUE
  /\ queue = <<>>
  /\ warmup = FALSE
  /\ pending = FALSE
  /\ cycle = 0
  /\ geomCycle = 0
  /\ snapBubbles = <<>>
  /\ g = [NewCycle(FALSE) EXCEPT !.done = TRUE]
  /\ p = [NewCycle(FALSE) EXCEPT !.done = TRUE]
  /\ lastEmit = [prev |-> NoFp, cur |-> NoFp]
  /\ clearSeen = FALSE
  /\ userActions = 0
  /\ probe = [op |-> "input"]

\* translation_workers.py 170-178: redaction of a capture of the whole virtual
\* desktop, whose top-left corner is the offset
Redact_FullScreen ==
  /\ probe.op = "input"
  /\ \E origin \in Origins :
       /\ image' = _redact_image(image, active_geometries, origin.x, origin.y,
                                 redaction_margin)
       /\ probe' = [op |-> "redact", kind |-> "full", passed |-> active_geometries,
                    ox |-> origin.x, oy |-> origin.y, region |-> QRect(0, 0, 0, 0)]
  /\ UNCHANGED <<running, wpc, ocr_reader, redaction_margin, active_geometries, last_hashes,
                 image_cache, ocr_translation_cache, last_translation_signature,
                 ocr_regions, cache, uiVars, histVars>>

\* workers.py 208-213: redaction of the capture of one region with the
\* geometries that intersect it
Redact_Region ==
  /\ probe.op = "input"
  /\ \E region \in Regions :
       LET region_rect == QRect(region.x, region.y, region.width, region.height)
           intersecting == SelectSeq(active_geometries,
                                     LAMBDA r : Intersects(region_rect, r))
       IN /\ image' = _redact_image(image, intersecting, region.x, region.y,
                                    redaction_margin)
          /\ probe' = [op |-> "redact", kind |-> "region", passed |-> intersecting,
                       ox |-> region.x, oy |-> region.y, region |-> region_rect]
  /\ UNCHANGED <<running, wpc, ocr_reader, redaction_margin, active_geometries, last_hashes,
                 image_cache, ocr_translation_cache, last_translation_signature,
                 ocr_regions, cache, uiVars, histVars>>

NextRedact == Redact_FullScreen \/ Redact_Region

SpecRedact == InitRedact /\ [][NextRedact]_vars

\* C10: for a geometry (x, y, w, h), margin m and capture offset (ox, oy) the
\* rectangle painted is (x - ox - m, y - oy - m, w + 2m, h + 2m); with m = 15,
\* offset (0, 0) and geometry (100, 100, 80, 20) it is (85, 85, 110, 50); and in
\* the capture of a region the painted rectangle, moved by the region's origin,
\* is the geometry expanded by m in global coordinates.
C10_PaintedRectangle ==
  probe.op = "redact" =>
    /\ image.painted =
         {QRect(RectX(r) - probe.ox - redaction_margin, RectY(r) - probe.oy - redaction_margin,
                RectWidth(r) + 2 * redaction_margin, RectHeight(r) + 2 * redaction_margin)
            : r \in Range(probe.passed)}
    /\ (/\ probe.passed = <<QRect(100, 100, 80, 20)>> /\ redaction_margin = 15
        /\ probe.ox = 0 /\ probe.oy = 0)
         => image.painted = {QRect(85, 85, 110, 50)}
    /\ probe.kind = "region" =>
         {Translated(q, RectX(probe.region), RectY(probe.region)) : q \in image.painted} =
           {QRect(RectX(r) - redaction_margin, RectY(r) - redaction_margin,
                  RectWidth(r) + 2 * redaction_margin, RectHeight(r) + 2 * redaction_margin)
              : r \in Range(probe.passed)}

\* the spec's example was redacted
C10_Witness ==
  /\ probe.op = "redact"
  /\ probe.passed = <<QRect(100, 100, 80, 20)>> /\ redaction_margin = 15
  /\ probe.ox = 0 /\ probe.oy = 0
  /\ image.painted = {QRect(85, 85, 110, 50)}

\* a region capture painted a geometry at an offset
C10_RegionReached ==
  probe.op = "redact" /\ probe.kind = "region" /\ probe.passed # <<>>

----------------------------------------------------------------------------
(* The run loops on their own, with time: cycle, idle sleep, stop *)

\* how many cycles a run of SpecLoop has
MaxLoopCycles == 2

\* translation_workers.py run: target_interval
target_interval == 1000

\* workers.py: self.interval
interval == 2000

\* timer.elapsed() at the end of a cycle, in ms
Elapsed == {0, 300, 1000, 1250}

\* msleep(ms), entered after a look at the running flag (checked) or without one
Msleep(ms, checked) == [ms |-> ms, checked |-> checked]

\* n times: if not self.running: break; self.msleep(100)
Ticks(n) == [i \in 1..n |-> Msleep(100, TRUE)]

\* translation_workers.py 138-151: the msleep calls that follow a cycle
SleepPlan(elapsed, raised) ==
  IF raised THEN <<Msleep(1000, FALSE)>>
  ELSE IF target_interval - elapsed > 0
       THEN <<Msleep(PyInt(2 * (target_interval - elapsed)), FALSE)>>
       ELSE <<Msleep(1, FALSE)>>

\* workers.py 70-90: the msleep calls that follow a cycle
LegacySleepPlan(elapsed, raised) ==
  IF raised THEN Ticks(50)
  ELSE IF interval - elapsed > 0
       THEN Ticks((interval - elapsed) \div 100) \o <<Msleep((interval - elapsed) % 100, TRUE)>>
       ELSE <<Msleep(100, FALSE)>>

\* the interval a loop keeps between cycles that raise nothing
NormalInterval(worker) == IF worker = "ocr" THEN target_interval ELSE interval

\* overlay_ui.py 188-190, 271: values of interval_spin (500 to 10000 ms in steps
\* of 500, 2000 when nothing is stored)
IntervalSpin == {1000, 2000}

InitLoop ==
  /\ running = TRUE
  /\ wpc = "top"
  /\ ocr_reader = TRUE
  /\ redaction_margin = MarginSpin
  /\ active_geometries = <<>>
  /\ last_hashes = <<>>
  /\ image_cache = <<>>
  /\ ocr_translation_cache = <<>>
  /\ last_translation_signature = NoSignature
  /\ image = NoImage
  /\ ocr_regions = <<>>
  /\ cache = <<>>
  /\ bubbles = <<>>
  /\ panel_visible = FALSE
  /\ overlay_visible = TRUE
  /\ combine_check = TRUE
  /\ show_full_check = TRUE
  /\ queue = <<>>
  /\ warmup = FALSE
  /\ pending = FALSE
  /\ cycle = 0
  /\ geomCycle = 0
  /\ snapBubbles = <<>>
  /\ g = [NewCycle(FALSE) EXCEPT !.done = TRUE]
  /\ p = [NewCycle(FALSE) EXCEPT !.done = TRUE]
  /\ lastEmit = [prev |-> NoFp, cur |-> NoFp]
  /\ clearSeen = FALSE
  /\ userActions = 0
  \* set_config(..., interval, ...) has stored the interval of the control panel
  /\ \E worker \in {"ocr", "legacy"}, configured \in IntervalSpin :
       probe = [op |-> "run", worker |-> worker, plan |-> <<>>, raised |-> FALSE,
                slept |-> 0, stopAge |-> 0, raisedCycles |-> 0,
                configured |-> configured, elapsed |-> 0]

\* everything the loops on their own leave alone
loopRest ==
  <<ocr_reader, redaction_margin, active_geometries, last_hashes, image_cache,
    ocr_translation_cache, last_translation_signature, image, ocr_regions, cache, uiVars,
    geomCycle, snapBubbles, g, p, lastEmit, clearSeen, userActions>>

\* while self.running: the loop condition, and the end of run when it fails
Run_Top ==
  /\ wpc = "top"
  /\ IF running
     THEN /\ cycle < MaxLoopCycles
          /\ wpc' = "cycle"
          /\ cycle' = cycle + 1
     ELSE /\ wpc' = "done"
          /\ cycle' = cycle
  /\ UNCHANGED <<running, probe, loopRest>>

\* the body of the try block up to the sleep: the cycle returns after `elapsed`
\* ms or raises, and the loop decides how to sleep
Run_Cycle ==
  /\ wpc = "cycle"
  /\ \E elapsed \in Elapsed, raised \in BOOLEAN :
       probe' = [probe EXCEPT
                   !.plan = IF probe.worker = "ocr" THEN SleepPlan(elapsed, raised)
                            ELSE LegacySleepPlan(elapsed, raised),
                   !.raised = raised,
                   !.elapsed = elapsed,
                   !.slept = 0,
                   !.raisedCycles = @ + (IF raised THEN 1 ELSE 0)]
  /\ wpc' = "sleep"
  /\ UNCHANGED <<running, cycle, loopRest>>

\* the sleeping thread: the next msleep call is entered (or skipped, when the
\* flag is looked at and found cleared), and the clock moves by at most 100 ms
Run_Sleep ==
  /\ wpc = "sleep"
  /\ IF probe.plan = <<>>
     THEN /\ wpc' = "top"
          /\ probe' = [probe EXCEPT !.stopAge = 0]
     ELSE LET h == Head(probe.plan)
              d == Min2(h.ms, 100)
          IN /\ wpc' = wpc
             /\ IF h.checked /\ ~running
                THEN probe' = [probe EXCEPT !.plan = <<>>]
                ELSE probe' = [probe EXCEPT
                                 !.plan = IF h.ms > d
                                          THEN <<Msleep(h.ms - d, FALSE)>> \o Tail(probe.plan)
                                          ELSE Tail(probe.plan),
                                 !.slept = @ + d,
                                 !.stopAge = IF running THEN 0 ELSE @ + d]
  /\ UNCHANGED <<running, cycle, loopRest>>

\* stop_translation: self.running = False, at any moment
Run_Stop ==
  /\ running
  /\ running' = FALSE
  /\ UNCHANGED <<wpc, cycle, probe, loopRest>>

NextLoop == Run_Top \/ Run_Cycle \/ Run_Sleep \/ Run_Stop

SpecLoop == InitLoop /\ [][NextLoop]_vars

\* C11: an exception raised in a cycle does not end the worker loop (the loop
\* ends only with the running flag cleared), and when the flag stays set the
\* loop comes back to its top after a backoff sleep longer than the interval it
\* keeps between cycles that raise nothing.
C11_BackoffLongerThanInterval ==
  /\ (probe.op = "run" /\ probe.worker = "ocr" /\ wpc = "done") => ~running
  /\ (probe.op = "run" /\ probe.worker = "ocr" /\ wpc = "top" /\ probe.raised /\ running)
       => probe.slept > NormalInterval("ocr")

\* C12: a stop request that arrives during the idle sleep is seen within one
\* tick of 100 ms: the sleeping loop never has the flag cleared for longer.
C12_StopSeenWithinOneTick ==
  (probe.op = "run" /\ wpc = "sleep" /\ ~probe.raised) => probe.stopAge <= 100


RECURSIVE PlanTotal(_)
\* the milliseconds of a list of msleep calls
PlanTotal(plan) == IF plan = <<>> THEN 0 ELSE Head(plan).ms + PlanTotal(Tail(plan))

\* C22: after a cycle of TranslationWorker.run that raised nothing, the sleep
\* that follows is max(0, I - elapsed) for the interval I last given to
\* set_config.
C22_SleepIsConfiguredIntervalLessElapsed ==
  (probe.op = "run" /\ probe.worker = "ocr" /\ wpc = "sleep" /\ ~probe.raised
     /\ probe.slept = 0 /\ probe.plan # <<>>)
    => PlanTotal(probe.plan) = Max2(0, probe.configured - probe.elapsed)

----------------------------------------------------------------------------
(* The spatial score on its own *)

\* the largest coordinate and the largest side of the rectangles scored
MaxCoord == 2

MaxSide == 2

ScoreRects ==
  {QRect(x, y, w, h) : x \in 0..MaxCoord, y \in 0..MaxCoord, w \in 0..MaxSide, h \in 0..MaxSide}

\* the worker and the overlay at rest: every variable but bubbles, overlay_visible
\* and probe
AtRest ==
  /\ running = FALSE
  /\ wpc = "off"
  /\ ocr_reader = TRUE
  /\ redaction_margin = MarginSpin
  /\ active_geometries = <<>>
  /\ last_hashes = <<>>
  /\ image_cache = <<>>
  /\ ocr_translation_cache = <<>>
  /\ last_translation_signature = NoSignature
  /\ image = NoImage
  /\ ocr_regions = <<>>
  /\ cache = <<>>
  /\ panel_visible = FALSE
  /\ combine_check = TRUE
  /\ show_full_check = TRUE
  /\ queue = <<>>
  /\ warmup = FALSE
  /\ pending = FALSE
  /\ cycle = 0
  /\ geomCycle = 0
  /\ snapBubbles = <<>>
  /\ g = [NewCycle(FALSE) EXCEPT !.done = TRUE]
  /\ p = [NewCycle(FALSE) EXCEPT !.done = TRUE]
  /\ lastEmit = [prev |-> NoFp, cur |-> NoFp]
  /\ clearSeen = FALSE
  /\ userActions = 0

\* every variable but bubbles and probe
restVars ==
  <<workerVars, cache, panel_visible, overlay_visible, combine_check, show_full_check,
    queue, warmup, pending, histVars>>

InitScore ==
  /\ AtRest
  /\ overlay_visible = TRUE
  /\ bubbles = <<>>
  /\ \E a \in ScoreRects, b \in ScoreRects : probe = [op |-> "rects", a |-> a, b |-> b]

\* overlay_ui.py 935-939 for the source rectangles a and b
Score_Spatial ==
  /\ probe.op = "rects"
  /\ probe' = [op |-> "score", a |-> probe.a, b |-> probe.b,
               iou |-> SpatialScore(probe.a, probe.b)]
  /\ UNCHANGED <<bubbles, restVars>>

NextScore == Score_Spatial

SpecScore == InitScore /\ [][NextScore]_vars

\* the pixels of a rectangle
Pixels(r) == {<<x, y>> : x \in r.x1..r.x2, y \in r.y1..r.y2}

Positive(r) == RectWidth(r) > 0 /\ RectHeight(r) > 0

\* C18 as stated: for rectangles of non-negative width and height the spatial
\* score is 1.0 when they are identical and 0.0 when they share no pixel.
C18_SpatialScoreNonNegative ==
  probe.op = "score" =>
    /\ probe.a = probe.b => (probe.iou.d > 0 /\ probe.iou.n = probe.iou.d)
    /\ Pixels(probe.a) \cap Pixels(probe.b) = {} => probe.iou.n = 0

\* C18 amended: the same for rectangles of positive width and height.
C18_SpatialScorePositive ==
  (probe.op = "score" /\ Positive(probe.a) /\ Positive(probe.b)) =>
    /\ probe.a = probe.b => (probe.iou.d > 0 /\ probe.iou.n = probe.iou.d)
    /\ Pixels(probe.a) \cap Pixels(probe.b) = {} => probe.iou.n = 0

\* a rectangle of positive size was scored against itself
C18_Witness ==
  /\ probe.op = "score" /\ Positive(probe.a) /\ probe.a = probe.b
  /\ probe.iou.n = probe.iou.d

\* two disjoint rectangles of positive size were scored
C18_DisjointReached ==
  /\ probe.op = "score" /\ Positive(probe.a) /\ Positive(probe.b)
  /\ Pixels(probe.a) \cap Pixels(probe.b) = {} /\ probe.iou.n = 0


\* C28: the spatial score of two overlapping rectangles A and B is
\* area(A n B) / (area(A) + area(B) - area(A n B)), and it lies in [0, 1].
C28_SpatialScoreIsTrueIoU ==
  (probe.op = "score" /\ Pixels(probe.a) \cap Pixels(probe.b) # {}) =>
    LET inter == Cardinality(Pixels(probe.a) \cap Pixels(probe.b))
        union == Cardinality(Pixels(probe.a) \cup Pixels(probe.b))
    IN /\ probe.iou.d > 0
       /\ probe.iou.n * union = inter * probe.iou.d
       /\ 0 <= probe.iou.n /\ probe.iou.n <= probe.iou.d

----------------------------------------------------------------------------
(* The overlay on its own: a sequence of update_translations calls *)

\* how many update_translations calls a run of SpecOverlay has
MaxUpdates == 3

\* a TranslationResult with its box in pixels
Res(text, x, y, w, h) ==
  [translated_text |-> text, x |-> PyFloat(x), y |-> PyFloat(y),
   width |-> PyFloat(w), height |-> PyFloat(h)]

\* a wide line, and a short line just beneath its right end
WideA == Res(<<"a">>, 100, 100, 400, 20)

BelowB == Res(<<"b">>, 400, 130, 80, 20)

\* the same word twice on one line, 300 pixels apart
Hi1 == Res(<<"h", "i">>, 100, 400, 80, 20)

Hi2 == Res(<<"h", "i">>, 400, 400, 80, 20)

\* a narrow box and a wide box with the same top-left corner
Tie1 == Res(<<"c">>, 100, 700, 10, 20)

Tie2 == Res(<<"d">>, 100, 700, 200, 20)

\* a line far from all others
Far == Res(<<"e">>, 1700, 900, 80, 20)

\* the translations lists passed to update_translations
UpdateInputs ==
  {<<>>, <<WideA>>, <<BelowB>>, <<Hi1>>, <<Hi1, Hi2>>, <<Tie1, Tie2>>, <<Tie2, Tie1>>, <<Far>>}

\* the updated_area arguments: None, the whole screen, the surroundings of Hi1
UpdateAreas == {NoArea, Area(QRect(0, 0, 1920, 1080)), Area(QRect(90, 390, 100, 40))}

\* fifty lines on a grid of ten columns and five rows, none of which merges,
\* clusters or matches with another
GridResult(k) ==
  Res(Digits(k + 10), 150 * ((k - 1) % 10), 600 + 100 * ((k - 1) \div 10), 80, 20)

\* the overlay after fifty update_translations calls with one grid line each,
\* made while the overlay window was hidden
FiftyBubbles == [k \in 1..MAX_BUBBLES |-> NewBubble(GridResult(k), TRUE)]

\* the bubble a result is applied to by lines 909-1007 (the one it marks as matched)
TargetOf(bs, result, default_expanded) ==
  CHOOSE i \in ApplyResult([bubbles |-> bs, matched |-> {}], result, default_expanded).matched : TRUE

RECURSIVE Targets(_, _, _)
\* for each result in turn, the bubble it is applied to and whether it created it
Targets(st, results, default_expanded) ==
  IF results = <<>> THEN <<>>
  ELSE <<[bubble |-> TargetOf(st.bubbles, Head(results), default_expanded),
          created |-> TargetOf(st.bubbles, Head(results), default_expanded) > Len(st.bubbles)]>>
       \o Targets(ApplyResult(st, Head(results), default_expanded), Tail(results),
                  default_expanded)

\* clustered_results of a call (none on the early return)
ResultsOf(translations, combine_mode) ==
  IF translations = <<>> THEN <<>>
  ELSE ClusterResults(MergeResults(FirstFifty(translations)), combine_mode)

InitOverlay ==
  /\ AtRest
  /\ \/ bubbles = <<>> /\ overlay_visible = TRUE
     \/ bubbles = FiftyBubbles /\ overlay_visible = FALSE
  /\ probe = [op |-> "overlay", calls |-> 0, before |-> <<>>, translations |-> <<>>,
              area |-> NoArea, results |-> <<>>, targets |-> <<>>]

\* TranslationOverlay.update_translations(translations, updated_area)
Overlay_Update ==
  /\ probe.op = "overlay"
  /\ probe.calls < MaxUpdates
  /\ probe.calls = 0 \/ Len(bubbles) < MAX_BUBBLES
  /\ \E translations \in UpdateInputs, area \in UpdateAreas :
       /\ bubbles' = update_translations(bubbles, translations, area, combine_check,
                                         show_full_check, panel_visible, overlay_visible)
       /\ probe' = [op |-> "overlay", calls |-> probe.calls + 1, before |-> bubbles,
                    translations |-> translations, area |-> area,
                    results |-> ResultsOf(translations, combine_check),
                    targets |-> Targets([bubbles |-> bubbles, matched |-> {}],
                                        ResultsOf(translations, combine_check),
                                        show_full_check)]
  /\ UNCHANGED restVars

\* overlay.py 279-429: update_translations([], updated_area) of the earlier window
Overlay_LegacyEmpty ==
  /\ probe.op = "overlay"
  /\ probe.calls < MaxUpdates
  /\ \E area \in UpdateAreas :
       /\ bubbles' = legacy_update_translations(bubbles, area)
       /\ probe' = [op |-> "legacy", calls |-> probe.calls + 1, before |-> bubbles,
                    translations |-> <<>>, area |-> area, results |-> <<>>,
                    targets |-> <<>>]
  /\ UNCHANGED restVars

NextOverlay == Overlay_Update \/ Overlay_LegacyEmpty

SpecOverlay == InitOverlay /\ [][NextOverlay]_vars

\* the orderings of the list s
Perms(s) ==
  {[i \in 1..Len(s) |-> s[f[i]]] :
     f \in {h \in [1..Len(s) -> 1..Len(s)] : \A i, j \in 1..Len(s) : h[i] = h[j] => i = j}}

\* C13: the merge pass gives the same groups (texts and rectangles) for every
\* ordering of the same input results.
C13_MergeOrderIndependent ==
  (probe.op = "overlay" /\ probe.calls > 0) =>
    \A t \in Perms(probe.translations) :
       Range(MergeResults(t)) = Range(MergeResults(probe.translations))

\* str.strip().lower() of a result's text
NormText(r) == Lower(Strip(r.translated_text))

\* result k of the last call has the text and the source origin of the bubble
\* that was i-th in the list, and live, when the call began
SameTextSamePlace(k, i) ==
  /\ probe.before[i].visible
  /\ NormText(probe.before[i].result) = NormText(probe.results[k])
  /\ SourceRect(probe.before[i].result).x1 = SourceRect(probe.results[k]).x1
  /\ SourceRect(probe.before[i].result).y1 = SourceRect(probe.results[k]).y1

\* C14: a result with the normalized text and the source origin of a live
\* annotation scores at least 0.7 against it and is applied to that annotation,
\* not to another one and not to a new one.
C14_SameTextSamePlaceUpdatesInPlace ==
  (probe.op = "overlay" /\ probe.calls > 0) =>
    \A k \in 1..Len(probe.results), i \in 1..Len(probe.before) :
       SameTextSamePlace(k, i) =>
         /\ ~FracGreater(Frac(7, 10), Score(probe.before[i].result, probe.results[k]))
         /\ probe.targets[k].bubble = i

\* C15: no annotation is updated by two results of the same call.
C15_OneResultPerAnnotation ==
  (probe.op = "overlay" /\ probe.calls > 0) =>
    \A k, l \in 1..Len(probe.targets) :
       (k # l /\ ~probe.targets[k].created /\ ~probe.targets[l].created)
         => probe.targets[k].bubble # probe.targets[l].bubble

\* C16: after an update_translations call the overlay's bubbles list has at most
\* 50 entries.
C16_AtMostFiftyBubbles ==
  (probe.op = "overlay" /\ probe.calls > 0) => Len(bubbles) <= MAX_BUBBLES

\* the bubbles results were applied to in the last call
MatchedInCall == {probe.targets[k].bubble : k \in 1..Len(probe.targets)}

\* C17: after a call with an updated_area, a bubble that was live, has its source
\* rectangle inside the area and was not matched in the call is no longer live
\* (it is gone from the list or closed), and a live unmatched bubble whose source
\* rectangle is outside the area is still live with the same content.
C17_StaleRemovedInArea ==
  (probe.op = "overlay" /\ probe.calls > 0 /\ probe.area.some) =>
    \A i \in 1..Len(probe.before) :
       (probe.before[i].visible /\ i \notin MatchedInCall) =>
         /\ RectContains(probe.area.rect, SourceRect(probe.before[i].result))
              => (i > Len(bubbles) \/ ~bubbles[i].visible)
         /\ (~Intersects(Adjusted(probe.area.rect, -5, -5, 5, 5),
                         SourceRect(probe.before[i].result))
             /\ Len(bubbles) <= MAX_BUBBLES)
              => (i <= Len(bubbles) /\ bubbles[i].visible
                  /\ bubbles[i].result = probe.before[i].result)


\* C29: an annotation torn down by update_translations (stale cleanup or cap
\* eviction closes it) is no longer in the overlay's bubbles list, which is what
\* the redaction snapshots and the matching passes go through: after a call the
\* list holds no closed bubble.
C29_TornDownLeavesTheList ==
  (probe.op = "overlay" /\ probe.calls > 0) =>
    \A i \in 1..Len(bubbles) : bubbles[i].visible

----------------------------------------------------------------------------
(* Properties of the pipeline: a failed capture, a missing OCR reader *)

\* what a cycle of the worker can change besides its own position
cycleEffects == <<image, ocr_regions, last_hashes, image_cache, ocr_translation_cache,
                  last_translation_signature, cache, queue, lastEmit>>

\* C19: the step in which capture_screen returns no data ends the cycle: nothing
\* is read by OCR, translated or emitted, no cache, last hash or signature
\* changes, no failure is recorded and the worker is back at the top of its loop.
C19_NoDataEndsCycle ==
  [][(wpc = "begin" /\ g'.cap = "none") =>
       /\ UNCHANGED cycleEffects
       /\ wpc' = "loop"
       /\ g'.done /\ ~g'.ocr /\ ~g'.tr /\ g'.emits = 0 /\ ~g'.fail]_vars

\* a cycle found no capture data while the caches, the last hash and the last
\* signature were filled by an earlier cycle
C19_Witness ==
  /\ g.cap = "none" /\ g.done /\ running
  /\ image_cache # <<>> /\ last_hashes # <<>>
  /\ last_translation_signature # NoSignature

\* C20: without an OCR reader a cycle only reports its status and ends, changing
\* none of what a cycle can change; the loop is left only once the worker is
\* stopped; and the reader appears only in the set_config of a successful
\* warm-up, so no cycle captures before that.
C20_IdleWithoutOcrReader ==
  [][/\ (wpc = "begin" /\ wpc' # "begin" /\ ~ocr_reader) =>
          /\ UNCHANGED cycleEffects
          /\ wpc' = "loop"
          /\ g'.cap = "idle" /\ g'.done /\ ~g'.ocr /\ ~g'.tr /\ g'.emits = 0
     /\ (wpc = "loop" /\ wpc' = "off") => ~running
     /\ (~ocr_reader /\ ocr_reader') =>
          /\ queue # <<>> /\ Head(queue).type = "warmup" /\ Head(queue).ok
          /\ pending]_vars

\* an idle cycle without a reader, then, after a set_config that made the
\* reader, a cycle that captured and read the picture
C20_Witness ==
  /\ p.cap = "idle" /\ p.done
  /\ g.cap = "image" /\ g.ocr /\ ocr_reader

NoTextDetected(img) ==
  \A i \in 1..Len(readtext(img)) : readtext(img)[i].prob < 2

\* C33: when OCR returns no regions, or none of confidence 0.2 or more, the
\* cycle ends without emitting translation_ready (the annotations on screen and
\* the queue of notifications are as before), the image cache holds an empty OCR
\* result for the picture, and the last-emitted signature is the empty marker.
C33_NoTextRecordsEmptyState ==
  [][(wpc = "ocr" /\ wpc' # "ocr" /\ ~g'.fail /\ NoTextDetected(image)) =>
       /\ wpc' = "loop" /\ g'.done /\ ~g'.tr /\ g'.emits = g.emits
       /\ queue' = queue /\ lastEmit' = lastEmit /\ bubbles' = bubbles
       /\ CacheHas(image_cache', calculate_hash(image))
       /\ CacheEntry(image_cache', calculate_hash(image)).hasOcr
       /\ CacheEntry(image_cache', calculate_hash(image)).ocr = <<>>
       /\ last_translation_signature' = EmptySignature]_vars

\* with annotations on screen, a cycle read a picture in which OCR was unsure of
\* the only line it found
C33_Witness ==
  /\ g.done /\ g.ocr /\ ~g.fail /\ ~g.tr /\ g.emits = 0
  /\ readtext(image) # <<>> /\ NoTextDetected(image)
  /\ last_translation_signature = EmptySignature
  /\ bubbles # <<>>

\* a cycle read a picture in which OCR found nothing at all
C33_Witness_NothingRead ==
  /\ g.done /\ g.ocr /\ ~g.fail /\ image # NoImage /\ readtext(image) = <<>>


\* the step appends a translation_ready notification to the UI thread's queue
EmitsReady ==
  /\ Len(queue') = Len(queue) + 1
  /\ queue'[Len(queue')].type = "ready"

\* C35: while the running flag is false (stop_translation has cleared it and no
\* warm-up has set it again) no step of the worker emits translation_ready.
C35_NoEmitAfterStop ==
  [][~running => ~EmitsReady]_vars


\* C36: once clear_all_translations has run during a cycle that had captured
\* its picture, the rest of that cycle stores nothing in the image cache, the
\* OCR-fingerprint cache or the string cache, sets neither the last hash nor the
\* last-emitted signature, and emits no translation_ready.
C36_ClearedCycleStoresNothing ==
  [][(g.cleared /\ ~g.done /\ wpc \in {"ocr", "translate"} /\ wpc' # wpc) =>
       /\ UNCHANGED <<image_cache, ocr_translation_cache, cache, last_hashes,
                      last_translation_signature>>
       /\ ~EmitsReady]_vars

----------------------------------------------------------------------------
(* The worker thread's life: start, stop, toggle and warm-up completion *)

\* how many start, stop and toggle requests a run has
MaxThreadEvents == 4

\* a plausible slip: every start launches another run()
BadQThreadStart(loops) == loops + 1

\* translation_workers.py 98-100, start_translation's self.start(): QThread.start
\* launches run() unless the thread is already running; loops is the number of
\* run() calls in progress
QThreadStart(loops) == IF loops > 0 THEN loops ELSE 1

\* probe counts, besides the run() calls in progress: the user's requests
\* (events), the warm-ups launched (launches), the last warm-up that a stop
\* terminated (cancelled), and the calls of the worker's start_translation (started)
InitThread ==
  /\ AtRest
  /\ bubbles = <<>>
  /\ overlay_visible = TRUE
  /\ probe = [op |-> "thread", loops |-> 0, events |-> 0, restarts |-> 0, cycles |-> 0,
              last |-> "none", launches |-> 0, cancelled |-> 0, started |-> 0]

threadRest ==
  <<ocr_reader, redaction_margin, active_geometries, last_hashes, image_cache,
    ocr_translation_cache, last_translation_signature, image, ocr_regions, cache, bubbles,
    combine_check, show_full_check, histVars>>

\* main_window.py 596-626, MainWindow.start_translation, reached from `via`
ThreadStartRequest(via) ==
  /\ IF warmup
     THEN UNCHANGED <<pending, warmup>>
     ELSE pending' = TRUE /\ warmup' = TRUE
  /\ UNCHANGED <<running, wpc, panel_visible, overlay_visible, queue>>
  /\ probe' = [probe EXCEPT !.events = @ + 1, !.last = via,
                            !.launches = IF warmup THEN @ ELSE @ + 1]

\* main_window.py 673-689 and translation_workers.py 102-111: stop_translation
\* clears the flag and waits up to a second for run() to return, which it does
\* (exited) or does not do in that time; reached from `via`
ThreadStopRequest(via) ==
  /\ IF warmup THEN pending' = FALSE /\ warmup' = FALSE ELSE UNCHANGED <<pending, warmup>>
  /\ running' = FALSE
  /\ panel_visible' = FALSE
  /\ overlay_visible' = FALSE
  /\ \E exited \in BOOLEAN :
       /\ probe' = [probe EXCEPT !.events = @ + 1, !.last = via,
                                 !.loops = IF exited THEN 0 ELSE @,
                                 !.cancelled = IF warmup THEN probe.launches ELSE @]
       /\ wpc' = IF exited THEN "off" ELSE wpc
  /\ UNCHANGED queue

Thread_Start ==
  /\ probe.op = "thread" /\ probe.events < MaxThreadEvents
  /\ ThreadStartRequest("start")
  /\ UNCHANGED threadRest

Thread_Stop ==
  /\ probe.op = "thread" /\ probe.events < MaxThreadEvents
  /\ ThreadStopRequest("stop")
  /\ UNCHANGED threadRest

\* main_window.py 589-594, MainWindow.toggle_translation
Thread_Toggle ==
  /\ probe.op = "thread" /\ probe.events < MaxThreadEvents
  /\ IF running THEN ThreadStopRequest("toggle") ELSE ThreadStartRequest("toggle")
  /\ UNCHANGED threadRest

\* translation_workers.py 452-459, ModelWarmupWorker.run: warmup_finished(ok, err)
Thread_Warmup ==
  /\ probe.op = "thread"
  /\ warmup /\ Len(queue) < MaxQueue
  /\ warmup' = FALSE
  /\ \E ok \in BOOLEAN :
       queue' = Append(queue, [type |-> "warmup", ok |-> ok, launch |-> probe.launches])
  /\ probe' = [probe EXCEPT !.last = "warmup"]
  /\ UNCHANGED <<running, wpc, pending, panel_visible, overlay_visible, threadRest>>

\* main_window.py 628-671, _on_model_warmup_finished, delivered by the event
\* loop: set_config, clear_hashes (nothing is cached here), start_translation
Thread_WarmupFinished ==
  /\ probe.op = "thread"
  /\ queue # <<>>
  /\ queue' = Tail(queue)
  /\ pending' = FALSE
  /\ IF Head(queue).ok /\ pending
     THEN /\ running' = TRUE
          /\ probe' = [probe EXCEPT !.last = "finished",
                                    !.loops = QThreadStart(probe.loops),
                                    !.started = @ + 1,
                                    !.restarts = @ + (IF probe.loops > 0 THEN 1 ELSE 0)]
          /\ wpc' = IF probe.loops > 0 THEN wpc ELSE "loop"
          /\ panel_visible' = TRUE
          /\ overlay_visible' = TRUE
     ELSE /\ probe' = [probe EXCEPT !.last = "finished"]
          /\ UNCHANGED <<running, wpc, panel_visible, overlay_visible>>
  /\ UNCHANGED <<warmup, threadRest>>

\* translation_workers.py 129-147: the loop finds the flag set and does a cycle
Thread_CycleBegin ==
  /\ probe.op = "thread"
  /\ probe.loops > 0 /\ wpc = "loop" /\ WhileRunning(running)
  /\ probe.cycles < MaxLoopCycles
  /\ wpc' = "begin"
  /\ probe' = [probe EXCEPT !.cycles = @ + 1, !.last = "cycle"]
  /\ UNCHANGED <<running, warmup, pending, panel_visible, overlay_visible, queue, threadRest>>

\* translation_workers.py 136-151: the cycle and the sleep after it are over
Thread_CycleEnd ==
  /\ probe.op = "thread"
  /\ probe.loops > 0 /\ wpc = "begin"
  /\ wpc' = "loop"
  /\ probe' = [probe EXCEPT !.last = "slept"]
  /\ UNCHANGED <<running, warmup, pending, panel_visible, overlay_visible, queue, threadRest>>

\* translation_workers.py 129, 153: a run() finds the flag cleared and returns
Thread_Exit ==
  /\ probe.op = "thread"
  /\ probe.loops > 0 /\ wpc = "loop" /\ ~WhileRunning(running)
  /\ probe' = [probe EXCEPT !.loops = @ - 1, !.last = "exit"]
  /\ wpc' = IF probe.loops = 1 THEN "off" ELSE wpc
  /\ UNCHANGED <<running, warmup, pending, panel_visible, overlay_visible, queue, threadRest>>

NextThread ==
  \/ Thread_Start
  \/ Thread_Stop
  \/ Thread_Toggle
  \/ Thread_Warmup
  \/ Thread_WarmupFinished
  \/ Thread_CycleBegin
  \/ Thread_CycleEnd
  \/ Thread_Exit

SpecThread == InitThread /\ [][NextThread]_vars

\* C21: at every moment at most one TranslationWorker.run is executing.
C21_AtMostOneWorkerLoop ==
  probe.op = "thread" => probe.loops <= 1

\* start_translation was called while the run() of an earlier start had not yet
\* returned (a stop whose wait timed out), and one run() is executing
C21_Witness ==
  probe.op = "thread" /\ probe.loops = 1 /\ probe.restarts > 0 /\ running


\* C37: the worker's start_translation is called only when the warm-up whose
\* completion is being handled succeeded, was launched by the latest start
\* request that launched one, was not terminated by a stop, and no warm-up
\* thread is running; and a start request made while a warm-up is running
\* launches no other.
C37_StartedOnlyByLatestWarmup ==
  [][/\ (probe.op = "thread" /\ probe'.started > probe.started) =>
          /\ queue # <<>> /\ Head(queue).type = "warmup" /\ Head(queue).ok
          /\ Head(queue).launch = probe.launches
          /\ Head(queue).launch # probe.cancelled
          /\ ~warmup
     /\ (probe.op = "thread" /\ warmup /\ warmup') =>
          probe'.launches = probe.launches]_vars

\* the worker thread is scheduled: a cycle in progress ends, and a loop that
\* can leave run() does
SpecThreadLive == SpecThread /\ WF_vars(Thread_CycleEnd) /\ WF_vars(Thread_Exit)

\* C30: a worker that finds the running flag cleared at the top of its loop
\* begins no cycle and leaves run(); run() ends in no other way than after the
\* flag was cleared; and once the flag is cleared run() returns, unless a new
\* start sets the flag again.  (stop_translation itself returns after its wait
\* of at most a second whether or not run() has returned by then.)
C30_StoppedWorkerReturns ==
  /\ [][/\ (wpc = "loop" /\ ~running /\ wpc' # wpc)
            => (wpc' = "off" /\ probe'.cycles = probe.cycles)
        /\ (probe.op = "thread" /\ probe'.loops < probe.loops) => ~running']_vars
  /\ (probe.op = "thread" /\ ~running /\ probe.loops > 0)
       ~> (probe.loops = 0 \/ running)

\* stop_translation gave up waiting while a cycle was in progress, and later the
\* loop found the flag cleared and run() returned
C30_Witness ==
  /\ probe.op = "thread" /\ probe.last = "exit"
  /\ probe.loops = 0 /\ probe.cycles > 0 /\ ~running /\ wpc = "off"

----------------------------------------------------------------------------
(* The fragment-merge pass on two results *)

MergeTexts == {<<"H", "e", "l">>, <<"h", "e", "l">>, <<"l", "o">>, <<"l">>}

MergeXs == {0, 22, 30, 70}

MergeYs == {0, 10, 30}

MergeWidths == {10, 20}

MergeHeights == {20, 100}

MergeInputs ==
  {Res(t, x, y, w, h) : t \in MergeTexts, x \in MergeXs, y \in MergeYs,
                        w \in MergeWidths, h \in MergeHeights}

\* two results as the API delivers them, the one that sorts first in front
InitMerge ==
  /\ AtRest
  /\ bubbles = <<>>
  /\ overlay_visible = TRUE
  /\ \E a \in MergeInputs, b \in MergeInputs :
       /\ SortByYX(<<a, b>>) = <<a, b>>
       /\ probe = [op |-> "merge", group |-> a, res |-> b, done |-> FALSE, merged |-> <<>>]

\* overlay_ui.py 816-844: the merge pass over the two results
Merge_Pass ==
  /\ probe.op = "merge" /\ ~probe.done
  /\ probe' = [probe EXCEPT !.done = TRUE,
                            !.merged = MergeResults(<<probe.group, probe.res>>)]
  /\ UNCHANGED <<bubbles, overlay_visible, restVars>>

NextMerge == Merge_Pass

SpecMerge == InitMerge /\ [][NextMerge]_vars

\* the second result found a group in the pass
Joined == probe.op = "merge" /\ probe.done /\ Len(probe.merged) = 1

\* twice the vertical centre of a result (half pixels)
VCentre2(r) == 2 * r.y + r.height

\* C24: the second result joins the group of the first exactly when their
\* vertical centres are less than 20 px apart and either their normalized texts
\* are equal and the horizontal gap is less than 50 px in magnitude, or the
\* horizontal gap lies strictly between -20 and 40 px.
C24_JoinsExactlyWhenCentresClose ==
  (probe.op = "merge" /\ probe.done) =>
    (Joined <=>
       /\ Abs(VCentre2(probe.group) - VCentre2(probe.res)) < 4 * 20
       /\ \/ /\ NormText(probe.group) = NormText(probe.res)
             /\ Abs(XDiff(probe.group, probe.res)) < 2 * 50
          \/ /\ -(2 * 20) < XDiff(probe.group, probe.res)
             /\ XDiff(probe.group, probe.res) < 2 * 40)

\* C25: when the second result joins the group of the first, the group's
\* rectangle contains both rectangles, its y is the smaller of the two, and its
\* text is the group's text, with the result's text after a space unless that
\* text already occurs in it.
C25_JoinUnionsRectAndAppendsText ==
  Joined =>
    LET grp == probe.merged[1]
        a == probe.group
        b == probe.res
    IN /\ grp.x <= Min2(a.x, b.x)
       /\ grp.y = Min2(a.y, b.y)
       /\ grp.x + grp.width >= Max2(a.x + a.width, b.x + b.width)
       /\ grp.y + grp.height >= Max2(a.y + a.height, b.y + b.height)
       /\ grp.translated_text =
            IF IsSubstring(Lower(Strip(b.translated_text)), Lower(a.translated_text))
            THEN a.translated_text
            ELSE a.translated_text \o <<" ">> \o b.translated_text

----------------------------------------------------------------------------
(* The decision for one result: append beneath, update in place, or create *)

\* the results the annotations on screen were made from
DecideBase == {WideA, Hi1, Far}

\* results beneath WideA (whose source rectangle is 100..500 by 100..120): the
\* vertical gap runs from -1 to 37 px and the horizontal overlap from 100 down
\* to 20 px; the row of Hi1; a blank text
DecideResults ==
  {Res(t, x, y, 80, 20) : t \in {<<"b">>, <<" ">>, <<"h", "i">>},
                          x \in {100, 400, 476, 480},
                          y \in {119, 120, 130, 155, 156, 157, 400}}

\* the overlay after update_translations calls with one result each
Built(rs) ==
  IF rs = <<>> THEN <<>>
  ELSE IF Len(rs) = 1
  THEN update_translations(<<>>, <<rs[1]>>, NoArea, TRUE, TRUE, FALSE, TRUE)
  ELSE update_translations(update_translations(<<>>, <<rs[1]>>, NoArea, TRUE, TRUE, FALSE, TRUE),
                           <<rs[2]>>, NoArea, TRUE, TRUE, FALSE, TRUE)

InitDecide ==
  /\ AtRest
  /\ overlay_visible = TRUE
  /\ \E rs \in {<<>>} \cup {<<r>> : r \in DecideBase}
                \cup {<<r, q>> : r \in DecideBase, q \in DecideBase} :
       bubbles = Built(rs)
  /\ probe = [op |-> "decide", done |-> FALSE, before |-> <<>>, results |-> <<>>]

\* overlay_ui.py 852: the user ticks or unticks the control panel's combine box
Decide_ToggleCombine ==
  /\ probe.op = "decide" /\ ~probe.done
  /\ combine_check' = ~combine_check
  /\ UNCHANGED <<workerVars, cache, bubbles, panel_visible, overlay_visible, show_full_check,
                 queue, warmup, pending, histVars, probe>>

\* overlay_ui.py 795-1048: update_translations([res], None); results are the
\* clustered_results of the call
Decide_Update ==
  /\ probe.op = "decide" /\ ~probe.done
  /\ \E res \in DecideResults :
       /\ bubbles' = update_translations(bubbles, <<res>>, NoArea, combine_check,
                                         show_full_check, panel_visible, overlay_visible)
       /\ probe' = [op |-> "decide", done |-> TRUE, before |-> bubbles,
                    results |-> ResultsOf(<<res>>, combine_check)]
  /\ UNCHANGED restVars

NextDecide == Decide_ToggleCombine \/ Decide_Update

SpecDecide == InitDecide /\ [][NextDecide]_vars

\* the merged result of the call
TheResult == probe.results[1]

\* the call had a merged result to decide on
Decided == probe.op = "decide" /\ probe.done /\ probe.results # <<>>

\* the bubbles the result of the call lies beneath, as the scan detects them
BelowTargets ==
  {j \in 1..Len(probe.before) :
     IsAppendBelow(SourceRect(probe.before[j].result), SourceRect(TheResult))}

\* the largest index in a set of bubble indexes
LastOf(S) == CHOOSE m \in S : \A n \in S : n <= m

\* the first bubble with the highest score against the result of the call
BestBubble ==
  CHOOSE j \in 1..Len(probe.before) :
    /\ \A i \in 1..Len(probe.before) :
         ~FracGreater(Score(probe.before[i].result, TheResult),
                      Score(probe.before[j].result, TheResult))
    /\ \A i \in 1..(j - 1) :
         FracGreater(Score(probe.before[j].result, TheResult),
                     Score(probe.before[i].result, TheResult))

\* the source results of a list of bubbles
ResultsIn(bs) == [i \in 1..Len(bs) |-> bs[i].result]

GapBelow(ex, res) == PyInt(res.y) - (PyInt(ex.y) + PyInt(ex.height))

\* the width two source rectangles share, in pixels
OverlapWidth(ex, res) ==
  Min2(PyInt(ex.x) + PyInt(ex.width), PyInt(res.x) + PyInt(res.width))
    - Max2(PyInt(ex.x), PyInt(res.x))

\* the result lies beneath the annotation: gap 0..36 px and an overlap of at
\* least 30% of the narrower width
LiesBeneath(ex, res) ==
  /\ 0 <= GapBelow(ex, res) /\ GapBelow(ex, res) <= 36
  /\ 10 * OverlapWidth(ex, res) >= 3 * Min2(PyInt(ex.width), PyInt(res.width))

\* annotation i holds its old text, a newline and the new text, over the union
\* of the two source rectangles
AppendedTo(i) ==
  /\ i <= Len(bubbles)
  /\ bubbles[i].result.translated_text =
       probe.before[i].result.translated_text \o <<"\n">> \o TheResult.translated_text
  /\ SourceRect(bubbles[i].result) =
       United(SourceRect(probe.before[i].result), SourceRect(TheResult))

\* C27: a result beneath a live annotation (gap 0..36 px, overlap at least 30%
\* of the narrower width) is appended to it and no annotation is made; a result
\* whose gap to an annotation is outside 0..36 px is not appended to it.
C27_AppendedWhenBeneath ==
  Decided =>
    \A i \in 1..Len(probe.before) :
       /\ (probe.before[i].visible /\ LiesBeneath(probe.before[i].result, TheResult))
            => (AppendedTo(i) /\ Len(bubbles) = Len(probe.before))
       /\ (GapBelow(probe.before[i].result, TheResult) < 0
            \/ GapBelow(probe.before[i].result, TheResult) > 36)
            => ~AppendedTo(i)

----------------------------------------------------------------------------
(* translate_text_regions called directly on lists of OCR regions *)

\* how many regions one OCR pass hands to the translator
MaxRegions == 5

\* the source texts: two lines of text and a detection whose text is blank
TranslateTexts == {<<"a">>, <<"b", " ">>, <<" ">>}

\* the i-th region of a list: lines of 40 by 20 half pixels, one beneath the other
RegionAt(text, i) == [text |-> text, x |-> 10, y |-> 50 * i, width |-> 40, height |-> 20]

RegionLists ==
  UNION {{[i \in 1..n |-> RegionAt(f[i], i)] : f \in [1..n -> TranslateTexts]}
         : n \in 0..MaxRegions}

InitTranslate ==
  /\ AtRest
  /\ overlay_visible = TRUE
  /\ bubbles = <<>>
  /\ probe = [op |-> "translate", done |-> FALSE, regions |-> <<>>, outcome |-> "ok",
              before |-> <<>>, results |-> <<>>, batch |-> <<>>]

translateRest ==
  <<workerVars, bubbles, panel_visible, overlay_visible, combine_check, show_full_check,
    queue, warmup, pending, histVars>>

\* translation_service.py 279-386: an earlier cycle translated one line of text
Translate_Earlier ==
  /\ probe.op = "translate" /\ ~probe.done
  /\ \E text \in TranslateTexts :
       /\ ~CacheHas(cache, CacheKey(Strip(text)))
       /\ cache' = translate_text_regions(cache, <<RegionAt(text, 1)>>, "ok").cache
  /\ UNCHANGED <<probe, translateRest>>

\* translation_service.py 279-386: translate_text_regions(regions, "auto", "English")
Translate_Call ==
  /\ probe.op = "translate" /\ ~probe.done
  /\ \E regions \in RegionLists, outcome \in TranslatorOutcomes :
       LET r == translate_text_regions(cache, regions, outcome)
       IN /\ cache' = r.cache
          /\ probe' = [op |-> "translate", done |-> TRUE, regions |-> regions,
                       outcome |-> outcome, before |-> cache, results |-> r.results,
                       batch |-> r.batch]
  /\ UNCHANGED translateRest

NextTranslate == Translate_Earlier \/ Translate_Call

SpecTranslate == InitTranslate /\ [][NextTranslate]_vars

\* the regions of the call whose text is not blank, with their stripped texts
NonBlank ==
  SelectSeq([i \in 1..Len(probe.regions) |->
               [idx |-> i, text |-> Strip(probe.regions[i].text)]],
            LAMBDA e : e.text # <<>>)

\* those of them whose key was not in the string cache when the call began
Missed == SelectSeq(NonBlank, LAMBDA e : ~CacheHas(probe.before, CacheKey(e.text)))

\* C31: the texts handed to the model are exactly the stripped texts whose key
\* (model, text, source language, target language) missed the string cache, in
\* region order (none when every text hits), and after a batch the model
\* translated every one of them is stored under its key.
C31_OnlyMissesTranslatedAndStored ==
  (probe.op = "translate" /\ probe.done /\ probe.outcome = "ok") =>
     /\ probe.batch = [i \in 1..Len(Missed) |-> Missed[i].text]
     /\ \A i \in 1..Len(Missed) :
          /\ CacheHas(cache, CacheKey(Missed[i].text))
          /\ CacheEntry(cache, CacheKey(Missed[i].text)).value = ModelOutput(Missed[i].text)

\* the region a returned result was produced from, by its bounding box (0 if none)
RegionOf(res) ==
  IF \E i \in 1..Len(probe.regions) : TranslationResult(<<>>, probe.regions[i]).y = res.y
  THEN CHOOSE i \in 1..Len(probe.regions) :
         TranslationResult(<<>>, probe.regions[i]).y = res.y
  ELSE 0

\* C32: no returned result has a blank translated_text or comes from a region
\* whose source text is blank; every result carries the bounding box of the
\* region whose text it translates; and the results are in the order of their
\* regions.
C32_ResultsNonBlankBoxedInOrder ==
  (probe.op = "translate" /\ probe.done) =>
     /\ \A k \in 1..Len(probe.results) :
          LET res == probe.results[k]
              i == RegionOf(res)
          IN /\ Strip(res.translated_text) # <<>>
             /\ i # 0
             /\ Strip(probe.regions[i].text) # <<>>
             /\ res = TranslationResult(ModelOutput(Strip(probe.regions[i].text)),
                                        probe.regions[i])
     /\ \A k \in 1..Len(probe.results) - 1 :
          RegionOf(probe.results[k]) < RegionOf(probe.results[k + 1])

----------------------------------------------------------------------------
(* update_translations on TranslationResult objects: which object each step of
   the call reads, copies and writes.  A heap is the sequence of the objects
   made so far and a reference is an index into it. *)

\* how many times a cached list is emitted
MaxAliasCalls == 3

\* the element of a one-element set; {F(v) : v \in {e}} computes e once
The(S) == CHOOSE x \in S : TRUE

\* a plausible slip: the object itself is taken where a copy is meant
BadReplace(heap, ref) == [heap |-> heap, ref |-> ref]

\* dataclasses.replace(obj): a new object with the fields of obj
Replace(heap, ref) == [heap |-> Append(heap, heap[ref]), ref |-> Len(heap) + 1]

\* the values of the objects a list of references points to
Deref(heap, refs) == [i \in 1..Len(refs) |-> heap[refs[i]]]

\* sorted(translations, key=lambda r: (r.y, r.x)) on references
SortRefsByYX(heap, refs) ==
  LET keyed == [i \in 1..Len(refs) |->
                  [k1 |-> heap[refs[i]].y, k2 |-> heap[refs[i]].x, v |-> refs[i]]]
      srt == SortKeyed(keyed, <<>>)
  IN [i \in 1..Len(srt) |-> srt[i].v]

\* sorted(..., key=lambda r: (int(r.y), int(r.x))) on references
SortRefsByIntYX(heap, refs) ==
  LET keyed == [i \in 1..Len(refs) |->
                  [k1 |-> PyInt(heap[refs[i]].y), k2 |-> PyInt(heap[refs[i]].x),
                   v |-> refs[i]]]
      srt == SortKeyed(keyed, <<>>)
  IN [i \in 1..Len(srt) |-> srt[i].v]

RECURSIVE MergeOneRef(_, _, _)
\* overlay_ui.py 819-844 for one result: st = [heap, merged]; a group is written
\* in place, a result that joins none is copied into merged_results
MergeOneRef(st, res, j) ==
  IF j > Len(st.merged)
  THEN LET c == Replace(st.heap, res)
       IN [heap |-> c.heap, merged |-> Append(st.merged, c.ref)]
  ELSE LET existing == st.merged[j]
       IN IF IsDuplicate(st.heap[existing], st.heap[res]) THEN st
          ELSE IF IsAdjacent(st.heap[existing], st.heap[res])
          THEN [st EXCEPT !.heap[existing] = JoinGroup(st.heap[existing], st.heap[res])]
          ELSE MergeOneRef(st, res, j + 1)

RECURSIVE MergeAllRef(_, _)
MergeAllRef(st, sorted_results) ==
  IF sorted_results = <<>> THEN st
  ELSE The({MergeAllRef(next, Tail(sorted_results)) :
              next \in {MergeOneRef(st, Head(sorted_results), 1)}})

RECURSIVE ClusterOneRef(_, _, _, _)
\* overlay_ui.py 862-877: the clusters hold references to the merged results
ClusterOneRef(heap, clusters, res, j) ==
  IF j > Len(clusters)
  THEN Append(clusters, [rect |-> SourceRect(heap[res]), items |-> <<res>>])
  ELSE IF InCluster(clusters[j].rect, heap[res])
  THEN [clusters EXCEPT ![j] = [rect |-> United(clusters[j].rect, SourceRect(heap[res])),
                                items |-> Append(clusters[j].items, res)]]
  ELSE ClusterOneRef(heap, clusters, res, j + 1)

RECURSIVE ClusterAllRef(_, _, _)
ClusterAllRef(heap, clusters, merged) ==
  IF merged = <<>> THEN clusters
  ELSE ClusterAllRef(heap, ClusterOneRef(heap, clusters, Head(merged), 1), Tail(merged))

\* overlay_ui.py 880-902 for one cluster: base = replace(items[0]) and the
\* writes to base; st = [heap, out]
ClusterBaseRef(st, cl, value) ==
  IF value.translated_text = <<>> THEN st
  ELSE The({[heap |-> [c.heap EXCEPT ![c.ref] = value], out |-> Append(st.out, c.ref)] :
              c \in {Replace(st.heap, SortRefsByIntYX(st.heap, cl.items)[1])}})

RECURSIVE ClusterBasesRef(_, _)
ClusterBasesRef(st, clusters) ==
  IF clusters = <<>> THEN st
  ELSE The({ClusterBasesRef(next, Tail(clusters)) :
              next \in {ClusterBaseRef(st, Head(clusters),
                                       ClusterResult([rect |-> Head(clusters).rect,
                                                      items |-> Deref(st.heap,
                                                                      Head(clusters).items)]))}})

\* overlay_ui.py 593, 600-602: does update_content take the new result object
TakesResult(old, new) ==
  \/ old.translated_text # new.translated_text
  \/ Abs(PyInt(old.x) - PyInt(new.x)) + Abs(PyInt(old.y) - PyInt(new.y)) > 5

\* the bubbles with the present values of the objects they hold
Showing(bs, heap, refs) == [i \in 1..Len(bs) |-> [bs[i] EXCEPT !.result = heap[refs[i]]]]

\* overlay_ui.py 957-972: base = replace(append_below_target.result), the writes
\* to base and update_content(base); c is the copy, v the result's value
AppendRef(st, bs, c, base, below) ==
  [heap |-> [c.heap EXCEPT ![c.ref] = base],
   bubbles |-> [bs EXCEPT ![below] =
                  update_content([@ EXCEPT !.result =
                                    [c.heap EXCEPT ![c.ref] = base][st.refs[below]]],
                                 base)],
   refs |-> [st.refs EXCEPT ![below] =
               IF TakesResult([c.heap EXCEPT ![c.ref] = base][st.refs[below]], base)
               THEN c.ref ELSE @],
   matched |-> st.matched \cup {below}]

\* overlay_ui.py 956-1007 for one result with the outcome m of the scan;
\* st = [heap, bubbles, refs, matched], refs[i] the object bubble i holds, bs the
\* bubbles with the values of those objects, v the value of the result
ApplyScanned(st, bs, result, v, m, default_expanded) ==
  IF m.below # 0 /\ Strip(v.translated_text) # <<>>
  THEN The({AppendRef(st, bs, c, AppendBelow(c.heap[c.ref], v), m.below) :
              c \in {Replace(st.heap, st.refs[m.below])}})
  ELSE IF m.best # 0 /\ FracGreater(m.highest, Frac(4, 10))
  THEN [heap |-> st.heap,
        bubbles |-> [bs EXCEPT ![m.best] = update_content(@, v)],
        refs |-> [st.refs EXCEPT ![m.best] =
                    IF TakesResult(bs[m.best].result, v) THEN result ELSE @],
        matched |-> st.matched \cup {m.best}]
  ELSE [heap |-> st.heap,
        bubbles |-> Append(bs, NewBubble(v, default_expanded)),
        refs |-> Append(st.refs, result),
        matched |-> st.matched \cup {Len(bs) + 1}]

\* overlay_ui.py 909-1007 for one result
ApplyRef(st, result, default_expanded) ==
  The({The({ApplyScanned(st, bs, result, st.heap[result], m, default_expanded) :
              m \in {ScanBubbles(bs, st.heap[result], 1,
                                 [best |-> 0, highest |-> Frac(0, 1), below |-> 0])}}) :
         bs \in {Showing(st.bubbles, st.heap, st.refs)}})

RECURSIVE ApplyAllRef(_, _, _)
ApplyAllRef(st, results, default_expanded) ==
  IF results = <<>> THEN st
  ELSE The({ApplyAllRef(next, Tail(results), default_expanded) :
              next \in {ApplyRef(st, Head(results), default_expanded)}})

\* overlay_ui.py 846-906: clustered_results, as references, for the merge
\* outcome mg = [heap, merged]
ClusterRefs(mg, combine_mode) ==
  IF ~combine_mode THEN [heap |-> mg.heap, out |-> mg.merged]
  ELSE The({[heap |-> cb.heap, out |-> SortRefsByIntYX(cb.heap, cb.out)] :
              cb \in {ClusterBasesRef([heap |-> mg.heap, out |-> <<>>],
                                      ClusterAllRef(mg.heap, <<>>, mg.merged))}})

\* overlay_ui.py 908-1048: the matching and what follows it
MatchRefs(cl, shown, refs, default_expanded, panel_shown, window_shown) ==
  The({[heap |-> ap.heap,
        bubbles |-> CleanUp([bubbles |-> Showing(ap.bubbles, ap.heap, ap.refs),
                             matched |-> ap.matched],
                            NoArea, panel_shown, window_shown),
        refs |-> ap.refs] :
         ap \in {ApplyAllRef([heap |-> cl.heap, bubbles |-> shown, refs |-> refs,
                              matched |-> {}],
                             cl.out, default_expanded)}})

\* overlay_ui.py 795-1048 on objects: the heap, the bubbles and the objects they
\* hold after update_translations(translations, None)
UpdateRefs(heap, shown, refs, translations, combine_mode, default_expanded, panel_shown, window_shown) ==
  IF translations = <<>> THEN [heap |-> heap, bubbles |-> shown, refs |-> refs]
  ELSE The({The({MatchRefs(cl, shown, refs, default_expanded, panel_shown, window_shown) :
                   cl \in {ClusterRefs(mg, combine_mode)}}) :
              mg \in {The({MergeAllRef([heap |-> heap, merged |-> <<>>], sorted) :
                             sorted \in {SortRefsByYX(heap, FirstFifty(translations))}})}})

\* the TranslationResult objects the worker has translated and stored
AliasObjects == <<WideA, BelowB, Tie1, Tie2, Hi1, Hi2>>

\* the lists the worker's image cache and OCR-fingerprint cache hold
AliasLists == {<<1>>, <<2>>, <<1, 2>>, <<3, 4>>, <<5, 6>>}

InitAlias ==
  /\ AtRest
  /\ overlay_visible = TRUE
  /\ bubbles = <<>>
  /\ probe = [op |-> "alias", calls |-> 0, heap |-> AliasObjects, refs |-> <<>>,
              list |-> <<>>]

\* overlay_ui.py 852: the user ticks or unticks the control panel's combine box
Alias_ToggleCombine ==
  /\ probe.op = "alias" /\ probe.calls < MaxAliasCalls
  /\ combine_check' = ~combine_check
  /\ UNCHANGED <<workerVars, cache, bubbles, panel_visible, overlay_visible, show_full_check,
                 queue, warmup, pending, histVars, probe>>

\* translation_workers.py 197-207, 279-286: a list held in a cache is emitted, and
\* overlay_ui.py 795-1048: update_translations receives that list
Alias_Update ==
  /\ probe.op = "alias" /\ probe.calls < MaxAliasCalls
  /\ \E list \in AliasLists :
       \E r \in {UpdateRefs(probe.heap, bubbles, probe.refs, list, combine_check,
                            show_full_check, panel_visible, overlay_visible)} :
          /\ bubbles' = r.bubbles
          /\ probe' = [op |-> "alias", calls |-> probe.calls + 1, heap |-> r.heap,
                       refs |-> r.refs, list |-> list]
  /\ UNCHANGED restVars

NextAlias == Alias_ToggleCombine \/ Alias_Update

SpecAlias == InitAlias /\ [][NextAlias]_vars

\* C38: whatever update_translations calls were made, every stored
\* TranslationResult object has the text and the rectangle it was stored with,
\* so a cached list emitted again carries the same results.
C38_InputObjectsNeverWritten ==
  probe.op = "alias" =>
    \A k \in 1..Len(AliasObjects) : probe.heap[k] = AliasObjects[k]

\* the two results of one list were merged into one group, and in a later
\* call the line of another list was appended beneath an annotation
C38_Witness ==
  /\ probe.op = "alias" /\ probe.calls > 1 /\ probe.list = <<2>>
  /\ \E k \in 1..Len(probe.heap) : probe.heap[k].translated_text = <<"c", " ", "d">>
  /\ \E i \in 1..Len(bubbles) : bubbles[i].result.translated_text = <<"a", "\n", "b">>

\* the bubbles are the ones update_translations gives on the values of the list
C38_AgreesOnValues ==
  [][(probe.op = "alias" /\ probe'.calls > probe.calls) =>
       bubbles' = update_translations(bubbles, Deref(probe.heap, probe'.list), NoArea,
                                      combine_check, show_full_check, panel_visible,
                                      overlay_visible)]_vars


====
